---- MODULE Spec2Model ----
(***************************************************************************)
(* AgentGuard core: policy evaluation, human-approval gate and the         *)
(* hash-chained audit ledger, modelled from apps/api/src.                  *)
(***************************************************************************)
EXTENDS Integers, Sequences, FiniteSets, TLC

VARIABLES
    polRules,     \* raw rule set handed to evaluatePolicy
    polCtx,       \* PolicyEvaluationContext handed to evaluatePolicy
    polResult,    \* PolicyEvaluationResult returned (decision "NONE" before the call)
    now,          \* wall clock (Date.now()), in minutes
    events,       \* audit_log_events rows, in commit order
    chainState,   \* audit_chain_state row of each workspace
    apc,          \* position of each direct appendAuditEvent call
    areq,         \* its event input and the tail it read
    overlap,      \* per workspace: some append read the tail while another was in its transaction
    tamperedId,   \* id of the stored event edited behind the ledger's back (0: none)
    replayOut,    \* last response of GET /forensics/replay
    approvals,    \* action_approval_requests rows; a row's id is its index
    baselines,    \* agent_action_baselines row of each (agent, tool, action)
    policies,     \* policies rows
    pc,           \* position of each evaluateAndLogAction call
    req,          \* its input
    loc,          \* its local variables
    rpc,          \* position of each approve / reject handler
    rreq,         \* the row it read
    riskIn,       \* arguments handed to computeRiskScore
    riskOut,      \* scores it returned: before and after one more signal (-1: none)
    hashIn,       \* a prevHash and two payloads handed to computeEventHash
    hashOut,      \* their canonical strings and hashes ("": not computed)
    playbooks,    \* workspace_playbooks rows; a row's id is its creation rank
    executions,   \* playbook_executions rows
    integrations, \* per workspace: an active GENERIC_WEBHOOK integration exists
    pb,           \* per call: the playbooks findMany returned and the loop position
    siem,         \* per call: state of its detached dispatchAuditEventToIntegrations
    polApproval,  \* what requiresHumanApproval returned ({}: not called)
    polBalanced,  \* what evaluatePolicy returned for the same rules in BALANCED mode
    sigIn,        \* a baseline row, a burst rate and a request handed to the signal derivation
    sigOut,       \* the signals it derived ({"none"}: not computed)
    agents,       \* agents.status of each agent
    apiKeys,      \* agent_api_keys rows
    signatures,   \* policy_approval_signatures rows, in creation order
    wf,           \* per policy workflow handler: the request and the row it read
    permIn,       \* the arguments of one hasWorkspacePermission call
    permOut       \* what it returned ({}: not called)

riskVars == <<riskIn, riskOut>>
hashVars == <<hashIn, hashOut>>
auxVars == <<polApproval, polBalanced, sigIn, sigOut>>
pureVars == <<polRules, polCtx, polResult, riskVars, hashVars, auxVars>>
dirVars == <<agents, apiKeys>>
workflowVars == <<signatures, wf>>
accessVars == <<permIn, permOut>>
polVars == <<pureVars, dirVars, workflowVars, accessVars>>
ledgerVars == <<events, chainState, apc, areq, overlap>>
forensicVars == <<tamperedId, replayOut>>
flowVars == <<playbooks, executions, integrations, pb, siem>>
gateVars == <<approvals, baselines, policies, pc, req, loc, rpc, rreq, flowVars, dirVars,
              workflowVars, accessVars>>

vars == <<polRules, polCtx, polResult, now, events, chainState, apc, areq, overlap,
          tamperedId, replayOut, approvals, baselines, policies, pc, req, loc, rpc, rreq,
          riskIn, riskOut, hashIn, hashOut, playbooks, executions, integrations, pb,
          siem, polApproval, polBalanced, sigIn, sigOut, agents, apiKeys, signatures, wf,
          permIn, permOut>>

NULL == "null"

----------------------------------------------------------------------------
(* Policy engine: apps/api/src/lib/policyEngine.ts                         *)

HIGH_RISK_ACTIONS ==
    {"delete", "drop", "transfer_funds", "write_prod", "admin_override", "terminate"}

\* String.prototype.toLowerCase on the action names the model uses.
toLowerCase(s) ==
    CASE s = "DELETE" -> "delete"
      [] s = "Drop" -> "drop"
      [] s = "READ" -> "read"
      [] OTHER -> s

\* rulesSchema defaults: a missing field parses to its default.
rulesSchema(raw) ==
    [ mode |-> IF "mode" \in DOMAIN raw THEN raw.mode ELSE "BALANCED",
      allow_actions |-> IF "allow_actions" \in DOMAIN raw THEN raw.allow_actions ELSE {},
      deny_actions |-> IF "deny_actions" \in DOMAIN raw THEN raw.deny_actions ELSE {},
      allow_tools |-> IF "allow_tools" \in DOMAIN raw THEN raw.allow_tools ELSE {},
      deny_tools |-> IF "deny_tools" \in DOMAIN raw THEN raw.deny_tools ELSE {},
      require_approval_actions |->
          IF "require_approval_actions" \in DOMAIN raw
          THEN raw.require_approval_actions ELSE {} ]

\* normalizePolicyRules(rules, mode?): mode argument NULL when not passed.
normalizePolicyRules(rules, mode) ==
    LET parsed == rulesSchema(rules)
    IN  [parsed EXCEPT !.mode = IF mode = NULL THEN parsed.mode ELSE mode]

\* Mutant: a burst of exactly five calls is not flagged.
policySignals_burstAbove(rules, ctx) ==
    (IF toLowerCase(ctx.action) \in HIGH_RISK_ACTIONS THEN {"high_risk_action"} ELSE {})
    \cup (IF rules.allow_tools # {} /\ ctx.tool \notin rules.allow_tools
          THEN {"unknown_tool"} ELSE {})
    \cup (IF ctx.burstRate > 5 THEN {"burst_rate"} ELSE {})

\* The three signals evaluatePolicy detects before deciding.
policySignals(rules, ctx) ==
    (IF toLowerCase(ctx.action) \in HIGH_RISK_ACTIONS THEN {"high_risk_action"} ELSE {})
    \cup (IF rules.allow_tools # {} /\ ctx.tool \notin rules.allow_tools
          THEN {"unknown_tool"} ELSE {})
    \cup (IF ctx.burstRate >= 5 THEN {"burst_rate"} ELSE {})

\* Mutant: an allowlisted action escapes the deny list.
evaluatePolicy_allowBeatsDeny(inputRules, ctx) ==
    LET rules == normalizePolicyRules(inputRules, NULL)
        signals == policySignals(rules, ctx)
    IN  IF ctx.action \in rules.deny_actions /\ ctx.action \notin rules.allow_actions
        THEN [decision |-> "BLOCK", reason |-> "action_denied_by_policy", signals |-> signals]
        ELSE IF ctx.tool \in rules.deny_tools
        THEN [decision |-> "BLOCK", reason |-> "tool_denied_by_policy", signals |-> signals]
        ELSE IF rules.mode = "STRICT" /\ rules.allow_actions # {}
                /\ ctx.action \notin rules.allow_actions
        THEN [decision |-> "BLOCK", reason |-> "action_not_allowlisted_strict",
              signals |-> signals]
        ELSE IF rules.mode = "STRICT" /\ rules.allow_tools # {}
                /\ ctx.tool \notin rules.allow_tools
        THEN [decision |-> "BLOCK", reason |-> "tool_not_allowlisted_strict",
              signals |-> signals]
        ELSE [decision |-> "ALLOW", reason |-> "allowed_by_policy_engine",
              signals |-> signals]

\* Mutant: under STRICT the tool allowlist is tested before the action allowlist.
evaluatePolicy_toolFirst(inputRules, ctx) ==
    LET rules == normalizePolicyRules(inputRules, NULL)
        signals == policySignals(rules, ctx)
    IN  IF ctx.action \in rules.deny_actions
        THEN [decision |-> "BLOCK", reason |-> "action_denied_by_policy", signals |-> signals]
        ELSE IF ctx.tool \in rules.deny_tools
        THEN [decision |-> "BLOCK", reason |-> "tool_denied_by_policy", signals |-> signals]
        ELSE IF rules.mode = "STRICT" /\ rules.allow_tools # {}
                /\ ctx.tool \notin rules.allow_tools
        THEN [decision |-> "BLOCK", reason |-> "tool_not_allowlisted_strict",
              signals |-> signals]
        ELSE IF rules.mode = "STRICT" /\ rules.allow_actions # {}
                /\ ctx.action \notin rules.allow_actions
        THEN [decision |-> "BLOCK", reason |-> "action_not_allowlisted_strict",
              signals |-> signals]
        ELSE [decision |-> "ALLOW", reason |-> "allowed_by_policy_engine",
              signals |-> signals]

\* Mutant: under STRICT an empty allowlist allows nothing.
evaluatePolicy_emptyAllowsNothing(inputRules, ctx) ==
    LET rules == normalizePolicyRules(inputRules, NULL)
        signals == policySignals(rules, ctx)
    IN  IF ctx.action \in rules.deny_actions
        THEN [decision |-> "BLOCK", reason |-> "action_denied_by_policy", signals |-> signals]
        ELSE IF ctx.tool \in rules.deny_tools
        THEN [decision |-> "BLOCK", reason |-> "tool_denied_by_policy", signals |-> signals]
        ELSE IF rules.mode = "STRICT" /\ ctx.action \notin rules.allow_actions
        THEN [decision |-> "BLOCK", reason |-> "action_not_allowlisted_strict",
              signals |-> signals]
        ELSE IF rules.mode = "STRICT" /\ ctx.tool \notin rules.allow_tools
        THEN [decision |-> "BLOCK", reason |-> "tool_not_allowlisted_strict",
              signals |-> signals]
        ELSE [decision |-> "ALLOW", reason |-> "allowed_by_policy_engine",
              signals |-> signals]

\* Mutant: the allowlists are enforced whatever the mode is.
evaluatePolicy_allowlistAnyMode(inputRules, ctx) ==
    LET rules == normalizePolicyRules(inputRules, NULL)
        signals == policySignals(rules, ctx)
    IN  IF ctx.action \in rules.deny_actions
        THEN [decision |-> "BLOCK", reason |-> "action_denied_by_policy", signals |-> signals]
        ELSE IF ctx.tool \in rules.deny_tools
        THEN [decision |-> "BLOCK", reason |-> "tool_denied_by_policy", signals |-> signals]
        ELSE IF rules.allow_actions # {} /\ ctx.action \notin rules.allow_actions
        THEN [decision |-> "BLOCK", reason |-> "action_not_allowlisted_strict",
              signals |-> signals]
        ELSE IF rules.allow_tools # {} /\ ctx.tool \notin rules.allow_tools
        THEN [decision |-> "BLOCK", reason |-> "tool_not_allowlisted_strict",
              signals |-> signals]
        ELSE [decision |-> "ALLOW", reason |-> "allowed_by_policy_engine",
              signals |-> signals]

evaluatePolicy(inputRules, ctx) ==
    LET rules == normalizePolicyRules(inputRules, NULL)
        signals == policySignals(rules, ctx)
    IN  IF ctx.action \in rules.deny_actions
        THEN [decision |-> "BLOCK", reason |-> "action_denied_by_policy", signals |-> signals]
        ELSE IF ctx.tool \in rules.deny_tools
        THEN [decision |-> "BLOCK", reason |-> "tool_denied_by_policy", signals |-> signals]
        ELSE IF rules.mode = "STRICT" /\ rules.allow_actions # {}
                /\ ctx.action \notin rules.allow_actions
        THEN [decision |-> "BLOCK", reason |-> "action_not_allowlisted_strict",
              signals |-> signals]
        ELSE IF rules.mode = "STRICT" /\ rules.allow_tools # {}
                /\ ctx.tool \notin rules.allow_tools
        THEN [decision |-> "BLOCK", reason |-> "tool_not_allowlisted_strict",
              signals |-> signals]
        ELSE [decision |-> "ALLOW", reason |-> "allowed_by_policy_engine",
              signals |-> signals]

NoResult == [decision |-> "NONE", reason |-> "", signals |-> {}]

NoRiskIn ==
    [ signals |-> {}, action |-> "read", decision |-> "ALLOW",
      context |-> [ baselineAvgRiskScore |-> 0, baselineAvgPerMinute |-> 0,
                    burstRate |-> 0, isOffHours |-> FALSE, isNewPattern |-> FALSE ] ]

NoRiskOut == [before |-> -1, score |-> -1, added |-> NULL]

RiskIdle == riskIn = NoRiskIn /\ riskOut = NoRiskOut

NoHashIn == [prevHash |-> "", a |-> [t |-> "null"], b |-> [t |-> "null"]]
NoHashOut == [ca |-> "", cb |-> "", ha |-> "", hb |-> ""]

HashIdle == hashIn = NoHashIn /\ hashOut = NoHashOut

NoSigIn ==
    [ action |-> "read", isOffHours |-> FALSE, burstRate |-> 0,
      baseline |-> [exists |-> FALSE, avgRiskScore |-> 0, avgPerMinute |-> 0,
                    sampleCount |-> 0] ]

SigIdle == sigIn = NoSigIn /\ sigOut = {"none"}

AuxIdle == polApproval = {} /\ polBalanced = NoResult /\ SigIdle

AgentIds == {"a1", "a2", "a3"}
KeyIds == {"k1", "k2", "k3", "k4"}

\* agent_api_keys at the start: agent a1 holds an active key and one that was
\* rotated out at time 0; agents a2 and a3 hold one active key each (-1: no
\* date).
InitialKeys ==
    [ k \in KeyIds |->
        [ agentId |-> IF k \in {"k1", "k2"} THEN "a1" ELSE IF k = "k3" THEN "a2" ELSE "a3",
          revokedAt |-> IF k = "k2" THEN 0 ELSE -1 ] ]

\* Every agent is ACTIVE.
\* No permission check is observed.
NoPermIn == [role |-> "OWNER", permission |-> <<"", "">>, overrideEffect |-> NULL]
AccessIdle == permIn = NoPermIn /\ permOut = {}

DirectoryActive ==
    /\ agents = [a \in AgentIds |-> "ACTIVE"]
    /\ apiKeys = InitialKeys
    /\ AccessIdle

\* Agent a1 is ACTIVE or was disabled from the dashboard (POST
\* /agents/:id/disable).
DirectoryAny ==
    /\ agents \in {t \in [AgentIds -> {"ACTIVE", "DISABLED"}] :
                      t["a2"] = "ACTIVE" /\ t["a3"] = "ACTIVE"}
    /\ apiKeys = InitialKeys
    /\ AccessIdle

PolicyIdle ==
    /\ polRules = [mode |-> "BALANCED"]
    /\ polCtx = [tool |-> "kb", action |-> "read", burstRate |-> 0]
    /\ polResult = NoResult
    /\ AuxIdle
    /\ RiskIdle
    /\ HashIdle

----------------------------------------------------------------------------
(* Audit ledger: apps/api/src/lib/hashChain.ts                             *)

MaxTime == 16         \* the clock stops at MaxTime (minutes)
TickStep == 15        \* minutes between two observed instants
MaxEvents == 3        \* rows audit_log_events may hold
NumAppenders == 2     \* concurrent direct appendAuditEvent calls

Workspaces == {"w1", "w2"}
Appenders == 1..NumAppenders
EventIds == 1..MaxEvents     \* gen_random_uuid() draws any unused id
NoDate == -1                 \* absent / null Date
NoId == 0                    \* absent / null row id

\* The seed of every chain.
GENESIS == "GENESIS"

\* JavaScript values that JSON can carry.  An object is the sequence of its
\* own properties in insertion order, each key once.
JStr(s) == [t |-> "str", s |-> s]
JNum(n) == [t |-> "num", n |-> n]
JBool(b) == [t |-> "bool", b |-> b]
JNull == [t |-> "null"]
JArr(items) == [t |-> "arr", items |-> items]
JObj(props) == [t |-> "obj", props |-> props]
Prop(k, v) == [k |-> k, v |-> v]

\* The property names in use, in the order Array.prototype.sort gives them
\* (by UTF-16 code unit: "_" sorts before the lower-case letters).
KeyOrder ==
    << "__proto__", "a", "action", "agent_id", "anomaly_flagged", "approval_request_id",
       "b", "baseline_avg_per_minute", "baseline_avg_risk", "burst_rate", "created_at",
       "decision", "metadata", "reason", "resource", "risk_context", "risk_score",
       "signals", "tool", "workspace_id" >>

\* Object.keys(obj).sort()
SortedKeys(props) ==
    SelectSeq(KeyOrder, LAMBDA k : \E i \in 1..Len(props) : props[i].k = k)

PropValue(props, k) == props[CHOOSE i \in 1..Len(props) : props[i].k = k].v

RECURSIVE sortObject(_)
RECURSIVE sortItems(_, _)
RECURSIVE sortProps(_, _, _)

\* value.map(sortObject), from item i on
sortItems(items, i) ==
    IF i > Len(items) THEN << >>
    ELSE <<sortObject(items[i])>> \o sortItems(items, i + 1)

\* keys.reduce((acc, key) => { acc[key] = sortObject(obj[key]); return acc }, {}),
\* from key i on.  Assigning acc['__proto__'] runs the setter inherited from
\* Object.prototype: it creates no own property of acc.
sortProps(props, keys, i) ==
    IF i > Len(keys) THEN << >>
    ELSE (IF keys[i] = "__proto__" THEN << >>
          ELSE <<Prop(keys[i], sortObject(PropValue(props, keys[i])))>>)
         \o sortProps(props, keys, i + 1)

sortObject(value) ==
    IF value.t = "arr" THEN JArr(sortItems(value.items, 1))
    ELSE IF value.t = "obj" THEN JObj(sortProps(value.props, SortedKeys(value.props), 1))
    ELSE value

RECURSIVE stringify(_)
RECURSIVE stringifyItems(_, _)
RECURSIVE stringifyProps(_, _)

stringifyItems(items, i) ==
    IF i > Len(items) THEN ""
    ELSE (IF i > 1 THEN "," ELSE "") \o stringify(items[i]) \o stringifyItems(items, i + 1)

stringifyProps(props, i) ==
    IF i > Len(props) THEN ""
    ELSE (IF i > 1 THEN "," ELSE "") \o "\"" \o props[i].k \o "\":"
         \o stringify(props[i].v) \o stringifyProps(props, i + 1)

\* JSON.stringify: own properties in insertion order, array items in order.
stringify(value) ==
    CASE value.t = "str" -> "\"" \o value.s \o "\""
      [] value.t = "num" -> ToString(value.n)
      [] value.t = "bool" -> (IF value.b THEN "true" ELSE "false")
      [] value.t = "null" -> "null"
      [] value.t = "arr" -> "[" \o stringifyItems(value.items, 1) \o "]"
      [] value.t = "obj" -> "{" \o stringifyProps(value.props, 1) \o "}"

canonicalize(value) == stringify(sortObject(value))

\* createHash('sha256').update(s).digest('hex'), taken as one-to-one.
sha256hex(s) == "sha256(" \o s \o ")"

computeEventHash(prevHash, payload) == sha256hex(prevHash \o canonicalize(payload))

\* The order in which evaluatePolicy and evaluateAndLogAction push signals.
SignalOrder ==
    << "high_risk_action", "unknown_tool", "burst_rate", "behavior_drift",
       "new_action_pattern", "off_hours_execution", "human_approval_consumed",
       "human_approval_required" >>

NullOrStr(x) == IF x = NULL THEN JNull ELSE JStr(x)

RECURSIVE StrItems(_, _)
StrItems(strs, i) ==
    IF i > Len(strs) THEN << >> ELSE <<JStr(strs[i])>> \o StrItems(strs, i + 1)

\* The metadata object of an event: signals, then (from evaluateAndLogAction)
\* risk_score, approval_request_id and risk_context.
MetadataJson(md) ==
    JObj(<< Prop("signals",
                 JArr(StrItems(SelectSeq(SignalOrder, LAMBDA x : x \in md.signals), 1))) >>
         \o (IF "risk_score" \in DOMAIN md
             THEN <<Prop("risk_score", JNum(md.risk_score))>> ELSE << >>)
         \o << Prop("approval_request_id",
                    IF md.approval_request_id = NoId THEN JNull
                    ELSE JStr(ToString(md.approval_request_id))) >>
         \o (IF "risk_context" \in DOMAIN md
             THEN << Prop("risk_context",
                          JObj(<< Prop("baseline_avg_risk",
                                       JNum(md.risk_context.baseline_avg_risk)),
                                  Prop("baseline_avg_per_minute",
                                       JNum(md.risk_context.baseline_avg_per_minute)),
                                  Prop("burst_rate",
                                       JNum(md.risk_context.burst_rate)) >>)) >>
             ELSE << >>))

\* created_at is createdAt.toISOString(): the date written out.
createEventHashPayload(event, createdAt) ==
    JObj(<< Prop("workspace_id", JStr(event.workspaceId)),
            Prop("agent_id", NullOrStr(event.agentId)),
            Prop("tool", JStr(event.tool)),
            Prop("action", JStr(event.action)),
            Prop("resource", NullOrStr(event.resource)),
            Prop("decision", JStr(event.decision)),
            Prop("reason", JStr(event.reason)),
            Prop("metadata", MetadataJson(event.metadata)),
            Prop("anomaly_flagged", JBool(event.anomalyFlagged)),
            Prop("created_at", JStr(ToString(createdAt))) >>)

\* tx.auditChainState.findUnique(...)?.lastHash ?? 'GENESIS'
ReadTail(w) == IF chainState[w].exists THEN chainState[w].lastHash ELSE GENESIS

\* The row tx.auditLogEvent.create writes.
NewEventRow(id, event, prevHash, createdAt) ==
    [ id |-> id,
      workspaceId |-> event.workspaceId,
      agentId |-> event.agentId,
      tool |-> event.tool,
      action |-> event.action,
      resource |-> event.resource,
      decision |-> event.decision,
      reason |-> event.reason,
      metadata |-> event.metadata,
      anomalyFlagged |-> event.anomalyFlagged,
      prevHash |-> prevHash,
      hash |-> computeEventHash(prevHash, createEventHashPayload(event, createdAt)),
      createdAt |-> createdAt ]

\* Mutant: the upsert stores the tail the transaction read, not the new hash.
UpsertChainState_staleHash(state, row) ==
    [exists |-> TRUE, lastEventId |-> row.id, lastHash |-> row.prevHash]

\* tx.auditChainState.upsert: create and update write the same two fields.
UpsertChainState(state, row) ==
    [exists |-> TRUE, lastEventId |-> row.id, lastHash |-> row.hash]

UsedEventIds == {events[i].id : i \in 1..Len(events)}

\* The least id no event has.
NextEventId ==
    LET free == (1..(Len(events) + 1)) \ UsedEventIds
    IN  CHOOSE id \in free : \A other \in free : id <= other

\* Event inputs of direct callers (auth routes, seed).
AppendInputs ==
    [ workspaceId : Workspaces,
      agentId : {NULL},
      tool : {"auth"},
      action : {"login_success"},
      resource : {NULL},
      decision : {"ALLOW"},
      reason : {"auth"},
      metadata : {[signals |-> {}, approval_request_id |-> NoId]},
      anomalyFlagged : {FALSE},
      createdAt : {NoDate, 0} ]

NoAppend ==
    [ event |-> [workspaceId |-> "w1", agentId |-> NULL, tool |-> "", action |-> "",
                 resource |-> NULL, decision |-> "ALLOW", reason |-> "",
                 metadata |-> [signals |-> {}, approval_request_id |-> NoId],
                 anomalyFlagged |-> FALSE, createdAt |-> NoDate],
      prevHash |-> GENESIS, sawRow |-> FALSE, createdAt |-> NoDate ]

----------------------------------------------------------------------------
(* Requests, approvals, baselines: apps/api/src/services/actionService.ts  *)

NumRequests == 2      \* evaluateAndLogAction calls after the first one, each made once
MaxApprovals == 2     \* rows action_approval_requests may hold
NumResolvers == 2     \* concurrent approve / reject handlers
MaxInFlight == 2      \* evaluateAndLogAction calls running at the same time

Requests == 1..NumRequests
Resolvers == 1..NumResolvers
ApprovalIds == 1..MaxApprovals

APPROVAL_TTL == 15    \* APPROVAL_TTL_MS = 15 * 60 * 1000, in minutes
BURST_WINDOW == 1     \* Date.now() - 60_000, in minutes

\* The agents whose keys call in, as the route reads them from the key record.
Agent1 == [id |-> "a1", workspaceId |-> "w1", status |-> "ACTIVE", activePolicyId |-> "p1"]
Agent2 == [id |-> "a2", workspaceId |-> "w1", status |-> "ACTIVE", activePolicyId |-> NULL]
Agent3 == [id |-> "a3", workspaceId |-> "w2", status |-> "ACTIVE", activePolicyId |-> NULL]

ReqTools == {"crm"}
ReqActions == {"read", "delete", "export"}

\* Inputs of evaluateAndLogAction: agent a3 of workspace w2 reads; agent a1
\* asks for a delete with no approval id or with the id of the first approval
\* request; agent a2 asks for a delete with that same id.
RequestInputs ==
    [ agent : {Agent3}, tool : ReqTools, action : {"read"},
      forceBlockReason : {NULL}, approvalRequestId : {NoId}, isOffHours : {FALSE} ]
    \cup
    [ agent : {Agent1}, tool : ReqTools, action : {"delete"},
      forceBlockReason : {NULL}, approvalRequestId : {NoId, 1}, isOffHours : {FALSE} ]
    \cup
    [ agent : {Agent2}, tool : ReqTools, action : {"delete"},
      forceBlockReason : {NULL}, approvalRequestId : {1}, isOffHours : {FALSE} ]

PolicyIds == {"p1"}

InitialPolicies ==
    [ id \in PolicyIds |->
        [ workspaceId |-> "w1", mode |-> "BALANCED", status |-> "APPROVED",
          rules |-> [deny_actions |-> {"purge"}, require_approval_actions |-> {"export"}],
          version |-> 1, submitted |-> TRUE ] ]

MaxVersion == 2       \* highest version a policy reaches
MaxSignatures == 2    \* rows policy_approval_signatures may hold

\* The handlers of the policy routes that may run at the same time.
Reviewers == {1, 2}

NoWork == [stage |-> "idle", kind |-> "", id |-> "", status |-> "", version |-> 0]

\* Every policy is APPROVED at version 1, with the signature of that
\* approval; no policy route is running.
PoliciesApproved ==
    /\ policies = InitialPolicies
    /\ signatures = [i \in 1..Cardinality(PolicyIds) |->
                       [policyId |-> CHOOSE id \in PolicyIds : TRUE, version |-> 1]]
    /\ wf = [h \in Reviewers |-> NoWork]

BaselineKeys == {"a1", "a2", "a3"} \X ReqTools \X ReqActions

\* avgRiskScore and avgPerMinute hold two decimals: stored in hundredths.
NoBaseline == [exists |-> FALSE, avgRiskScore |-> 0, avgPerMinute |-> 0, sampleCount |-> 0]

NoReq ==
    [ agent |-> [id |-> "", workspaceId |-> "w1", status |-> "ACTIVE",
                 activePolicyId |-> NULL],
      tool |-> "", action |-> "", forceBlockReason |-> NULL,
      approvalRequestId |-> NoId, isOffHours |-> FALSE ]

NoLoc ==
    [ decision |-> "ALLOW", reason |-> "", signals |-> {}, burstRate |-> 0,
      baseline |-> NoBaseline, startedAt |-> NoDate, findAt |-> NoDate,
      approvedRequest |-> NoId, approvalId |-> NoId, riskScore |-> 0,
      prevHash |-> GENESIS, sawRow |-> FALSE, createdAt |-> NoDate, eventId |-> NoId ]

NoResolve == [id |-> NoId, kind |-> "", status |-> ""]

NumPlaybooks == 4     \* rows workspace_playbooks holds at the start
PlaybookIds == 1..NumPlaybooks

NoPlaybook ==
    [ exists |-> FALSE, workspaceId |-> "w1", enabled |-> FALSE, triggerDecision |-> NULL,
      minRiskScore |-> 0, matchSignals |-> {}, actionType |-> "", url |-> "" ]

NoRun == [list |-> << >>, i |-> 0]

FlowIdle ==
    /\ playbooks = [k \in PlaybookIds |-> NoPlaybook]
    /\ executions = << >>
    /\ integrations = [w \in Workspaces |-> FALSE]
    /\ pb = [p \in Requests |-> NoRun]
    /\ siem = [p \in Requests |-> "none"]

RequestsIdle ==
    /\ approvals = << >>
    /\ baselines = [k \in BaselineKeys |-> NoBaseline]
    /\ pc = [p \in Requests |-> "idle"]
    /\ req = [p \in Requests |-> NoReq]
    /\ loc = [p \in Requests |-> NoLoc]
    /\ rpc = [r \in Resolvers |-> "idle"]
    /\ rreq = [r \in Resolvers |-> NoResolve]

GateIdle ==
    /\ FlowIdle
    /\ DirectoryActive
    /\ PoliciesApproved
    /\ approvals = << >>
    /\ baselines = [k \in BaselineKeys |-> NoBaseline]
    /\ pc = [p \in Requests |-> "idle"]
    /\ req = [p \in Requests |-> NoReq]
    /\ loc = [p \in Requests |-> NoLoc]
    /\ rpc = [r \in Resolvers |-> "idle"]
    /\ rreq = [r \in Resolvers |-> NoResolve]

\* Calls that will still insert an audit event.
PendingAppends ==
    Cardinality({a \in Appenders : apc[a] = "tx"})
    + Cardinality({p \in Requests :
                     pc[p] \in {"gate_find", "gate_update", "gate_create",
                                "append_read", "append_write"}})

LedgerEmpty ==
    /\ now = 0
    /\ events = << >>
    /\ chainState = [w \in Workspaces |->
                        [exists |-> FALSE, lastEventId |-> NoId, lastHash |-> GENESIS]]
    /\ apc = [a \in Appenders |-> "idle"]
    /\ areq = [a \in Appenders |-> NoAppend]
    /\ overlap = [w \in Workspaces |-> FALSE]

ForensicsIdle ==
    /\ tamperedId = NoId
    /\ replayOut = [workspaceId |-> NULL, totalEvents |-> 0, integrityFailures |-> 0,
                    chainStatus |-> "NONE", timeline |-> << >>]

\* Time passes.
Tick ==
    /\ now + TickStep <= MaxTime
    /\ now' = now + TickStep
    /\ UNCHANGED <<polVars, ledgerVars, forensicVars, gateVars>>

\* appendAuditEvent, first half: open the transaction, read the tail, fix createdAt.
AppendRead(a, event) ==
    /\ apc[a] = "idle"
    /\ tamperedId = NoId
    /\ Len(events) + PendingAppends < MaxEvents
    /\ apc' = [apc EXCEPT ![a] = "tx"]
    /\ areq' = [areq EXCEPT ![a] =
                  [ event |-> event,
                    prevHash |-> ReadTail(event.workspaceId),
                    sawRow |-> chainState[event.workspaceId].exists,
                    createdAt |-> IF event.createdAt = NoDate THEN now
                                  ELSE event.createdAt ]]
    /\ overlap' = [overlap EXCEPT ![event.workspaceId] =
                     @ \/ \E b \in Appenders :
                            apc[b] = "tx" /\ areq[b].event.workspaceId = event.workspaceId]
    /\ UNCHANGED <<polVars, now, events, chainState, forensicVars, gateVars>>

\* What the second half of appendAuditEvent needs in order to run: its
\* transaction is open and gen_random_uuid() has an id to give.  The
\* transaction takes no lock (findUnique without FOR UPDATE, default
\* isolation level), so it waits for no other transaction.
CanCommit(a) ==
    /\ apc[a] = "tx"
    /\ EventIds \ UsedEventIds # {}

\* appendAuditEvent, second half: insert the event, upsert the tail, commit.
AppendCommit(a) ==
    /\ CanCommit(a)
    /\ \E id \in EventIds \ UsedEventIds :
         LET r == areq[a]
             row == NewEventRow(id, r.event, r.prevHash, r.createdAt)
             w == r.event.workspaceId
         IN  /\ events' = Append(events, row)
             /\ chainState' = [chainState EXCEPT ![w] = UpsertChainState(@, row)]
    /\ apc' = [apc EXCEPT ![a] = "idle"]
    /\ areq' = [areq EXCEPT ![a] = NoAppend]
    /\ UNCHANGED <<polVars, now, overlap, forensicVars, gateVars>>

\* Mutant: the upsert fails when any workspace got its tail row meanwhile.
AppendConflict_anyWorkspace(a) ==
    /\ apc[a] = "tx"
    /\ ~areq[a].sawRow
    /\ \E w \in Workspaces : chainState[w].exists
    /\ apc' = [apc EXCEPT ![a] = "idle"]
    /\ areq' = [areq EXCEPT ![a] = NoAppend]
    /\ UNCHANGED <<polVars, now, events, chainState, overlap, forensicVars, gateVars>>

\* The upsert of a transaction that saw no tail row, after another
\* transaction created it: a non-native upsert fails on the primary key and
\* the transaction rolls back (a native ON CONFLICT upsert is AppendCommit).
AppendConflict(a) ==
    /\ apc[a] = "tx"
    /\ ~areq[a].sawRow
    /\ chainState[areq[a].event.workspaceId].exists
    /\ apc' = [apc EXCEPT ![a] = "idle"]
    /\ areq' = [areq EXCEPT ![a] = NoAppend]
    /\ UNCHANGED <<polVars, now, events, chainState, overlap, forensicVars, gateVars>>

InitLedger == LedgerEmpty /\ PolicyIdle /\ ForensicsIdle /\ GateIdle

NextLedger ==
    \/ Tick
    \/ \E a \in Appenders, event \in AppendInputs : AppendRead(a, event)
    \/ \E a \in Appenders : AppendCommit(a)
    \/ \E a \in Appenders : AppendConflict(a)

SpecLedger == InitLedger /\ [][NextLedger]_vars

\* The stored events of workspace w, in commit (append) order.
ChainOf(w) == SelectSeq(events, LAMBDA e : e.workspaceId = w)

\* C4: for every workspace that has at least one audit event, ChainState
\* exists, lastHash is the hash of the most recently appended event of that
\* workspace and lastEventId is its id; a workspace without a ChainState row
\* has no event and its tail reads as GENESIS.
C4_TailIsLastEvent ==
    \A w \in Workspaces :
        LET c == ChainOf(w)
        IN  IF Len(c) > 0
            THEN /\ chainState[w].exists
                 /\ chainState[w].lastHash = c[Len(c)].hash
                 /\ chainState[w].lastEventId = c[Len(c)].id
                 /\ ReadTail(w) = c[Len(c)].hash
            ELSE ~chainState[w].exists /\ ReadTail(w) = GENESIS

\* Witness C4: a workspace holds two events and its tail is the second one's hash.
C4_Witness ==
    \E w \in Workspaces :
        /\ Len(ChainOf(w)) >= 2
        /\ chainState[w].lastHash = ChainOf(w)[Len(ChainOf(w))].hash
        /\ chainState[w].lastHash # ChainOf(w)[1].hash

\* C5: concurrent appends to one workspace are serialized: no two stored
\* events of one workspace carry the same prevHash.
C5_NoFork ==
    \A i, j \in 1..Len(events) :
        (i # j /\ events[i].workspaceId = events[j].workspaceId)
            => events[i].prevHash # events[j].prevHash

\* ORDER BY createdAt ASC, id ASC
RowBefore(e, f) ==
    e.createdAt < f.createdAt \/ (e.createdAt = f.createdAt /\ e.id < f.id)

RECURSIVE SortRows(_)
SortRows(S) ==
    IF S = {} THEN << >>
    ELSE LET m == CHOOSE e \in S : \A f \in S \ {e} : RowBefore(e, f)
         IN  <<m>> \o SortRows(S \ {m})

\* prisma.auditLogEvent.findMany of the replay route: where, orderBy, take.
\* agentId NULL, from NoDate, to NoDate: filter not given.
ReplayQuery(w, agentId, from, to, limit) ==
    LET rows == { e \in {events[i] : i \in 1..Len(events)} :
                    /\ e.workspaceId = w
                    /\ (agentId # NULL => e.agentId = agentId)
                    /\ (from # NoDate => e.createdAt >= from)
                    /\ (to # NoDate => e.createdAt <= to) }
        sorted == SortRows(rows)
    IN  SubSeq(sorted, 1, IF Len(sorted) < limit THEN Len(sorted) ELSE limit)

\* All events of a workspace as a reader gets them back.
ReadBack(w) == ReplayQuery(w, NULL, NoDate, NoDate, MaxEvents + 1)

RECURSIVE verifyFrom(_, _, _)
verifyFrom(evs, i, lastHash) ==
    IF i > Len(evs) THEN TRUE
    ELSE IF evs[i].prevHash # lastHash THEN FALSE
    ELSE IF evs[i].hash #
              computeEventHash(evs[i].prevHash,
                               createEventHashPayload(evs[i], evs[i].createdAt))
    THEN FALSE
    ELSE verifyFrom(evs, i + 1, evs[i].hash)

verifyHashChain(evs) == verifyFrom(evs, 1, GENESIS)

\* The timeline and summary GET /forensics/replay builds from the rows.
ReplayResponse(w, evs) ==
    LET timeline == [ i \in 1..Len(evs) |->
                        [ id |-> evs[i].id,
                          prevHash |-> evs[i].prevHash,
                          hash |-> evs[i].hash,
                          chainIntegrity |->
                              IF i = 1 \/ evs[i].prevHash = evs[i - 1].hash
                              THEN "OK" ELSE "BROKEN" ] ]
        integrityFailures ==
            Cardinality({i \in 1..Len(evs) : timeline[i].chainIntegrity = "BROKEN"})
    IN  [ workspaceId |-> w,
          totalEvents |-> Len(evs),
          integrityFailures |-> integrityFailures,
          chainStatus |-> IF integrityFailures = 0 THEN "HEALTHY" ELSE "BROKEN",
          timeline |-> timeline ]

REPLAY_DEFAULT_LIMIT == 250

\* GET /forensics/replay?workspaceId=w
ForensicsReplay(w, agentId, from, to) ==
    /\ replayOut' = ReplayResponse(w, ReplayQuery(w, agentId, from, to, REPLAY_DEFAULT_LIMIT))
    /\ UNCHANGED <<polVars, now, ledgerVars, tamperedId, gateVars>>

\* The stored fields an edit may hit and the value it writes.
TamperFields == {"action", "decision", "reason", "hash", "prevHash"}

TamperedRow(row, field) ==
    CASE field = "action" -> [row EXCEPT !.action = "tampered"]
      [] field = "decision" ->
           [row EXCEPT !.decision = IF @ = "ALLOW" THEN "BLOCK" ELSE "ALLOW"]
      [] field = "reason" -> [row EXCEPT !.reason = "tampered"]
      [] field = "hash" -> [row EXCEPT !.hash = GENESIS]
      [] field = "prevHash" -> [row EXCEPT !.prevHash = GENESIS]

\* Someone with database access rewrites one field of a middle event of a
\* chain that verifies, without recomputing any hash.
Tamper(w, k, field) ==
    /\ tamperedId = NoId
    /\ \A a \in Appenders : apc[a] = "idle"
    /\ LET c == ReadBack(w)
       IN  /\ Len(c) >= 3
           /\ 1 < k /\ k < Len(c)
           /\ verifyHashChain(c)
           /\ \E i \in 1..Len(events) :
                /\ events[i].id = c[k].id
                /\ events' = [events EXCEPT ![i] = TamperedRow(@, field)]
           /\ tamperedId' = c[k].id
    /\ replayOut' = [workspaceId |-> NULL, totalEvents |-> 0, integrityFailures |-> 0,
                     chainStatus |-> "NONE", timeline |-> << >>]
    /\ UNCHANGED <<polVars, now, chainState, apc, areq, overlap, gateVars>>

NextTamper ==
    \/ NextLedger
    \/ \E w \in Workspaces, k \in 1..MaxEvents, field \in TamperFields : Tamper(w, k, field)
    \/ \E w \in Workspaces : ForensicsReplay(w, NULL, NoDate, NoDate)

SpecTamper == InitLedger /\ [][NextTamper]_vars

\* C6: a chain built only by sequential appendAuditEvent calls to one
\* workspace is linked in append order (first prevHash GENESIS, each later
\* prevHash the previous hash), is read back in append order, and
\* verifyHashChain returns true for the events read back by createdAt, id.
C6_SequentialChainVerifies ==
    \A w \in Workspaces :
        ~overlap[w] =>
            LET c == ChainOf(w)
            IN  /\ \A i \in 1..Len(c) :
                     c[i].prevHash = IF i = 1 THEN GENESIS ELSE c[i - 1].hash
                /\ ReadBack(w) = c
                /\ verifyHashChain(ReadBack(w))

\* Position of the edited event in a replay timeline (0: not in it).
TamperedPos(timeline) ==
    IF \E i \in 1..Len(timeline) : timeline[i].id = tamperedId
    THEN CHOOSE i \in 1..Len(timeline) : timeline[i].id = tamperedId
    ELSE 0

\* C7: after a stored field of a middle event of a valid chain was changed,
\* the replay of that workspace reports the changed event and every later
\* event BROKEN, every earlier event OK, status BROKEN, and a break count
\* equal to the number of BROKEN events.
C7_TamperCascade ==
    (tamperedId # NoId /\ replayOut.workspaceId # NULL
        /\ TamperedPos(replayOut.timeline) # 0) =>
        LET t == replayOut.timeline
            k == TamperedPos(t)
        IN  /\ \A i \in 1..Len(t) :
                 t[i].chainIntegrity = IF i < k THEN "OK" ELSE "BROKEN"
            /\ replayOut.chainStatus = "BROKEN"
            /\ replayOut.integrityFailures =
                 Cardinality({i \in 1..Len(t) : t[i].chainIntegrity = "BROKEN"})

----------------------------------------------------------------------------
(* Hashing of payloads: canonicalize and computeEventHash                  *)

HashNumbers == {JNum(1), JNum(2)}

\* Objects with keys among a, b in either insertion order, and objects that
\* own a key named __proto__ (as JSON.parse creates them).
HashObjects ==
    {JObj(<< >>)}
    \cup {JObj(<<Prop(k, x)>>) : k \in {"a", "b", "__proto__"}, x \in HashNumbers}
    \cup {JObj(<<Prop("a", x), Prop("b", y)>>) : x \in HashNumbers, y \in HashNumbers}
    \cup {JObj(<<Prop("b", y), Prop("a", x)>>) : x \in HashNumbers, y \in HashNumbers}

\* What a metadata field may hold: scalars, two-item arrays, objects.
HashValues ==
    HashNumbers \cup {JStr("1"), JNull}
    \cup {JArr(<<x, y>>) : x \in HashNumbers, y \in HashNumbers}
    \cup HashObjects

\* Payloads: tool and metadata in either insertion order; metadata holds a
\* value under key a (nesting depth two below the payload).
HashPayloads ==
    {JObj(<<Prop("tool", JStr("crm")), Prop("metadata", JObj(<<Prop("a", v)>>))>>) :
        v \in HashValues}
    \cup {JObj(<<Prop("metadata", JObj(<<Prop("a", v)>>)), Prop("tool", JStr("crm"))>>) :
        v \in HashValues}

InitHash ==
    /\ hashIn \in [ prevHash : {GENESIS, sha256hex(GENESIS)},
                     a : HashPayloads, b : HashPayloads ]
    /\ hashOut = NoHashOut
    /\ polRules = [mode |-> "BALANCED"]
    /\ polCtx = [tool |-> "kb", action |-> "read", burstRate |-> 0]
    /\ polResult = NoResult
    /\ AuxIdle
    /\ RiskIdle
    /\ LedgerEmpty
    /\ ForensicsIdle
    /\ GateIdle

\* canonicalize and computeEventHash on both payloads.
ComputeHashes ==
    /\ hashOut = NoHashOut
    /\ hashOut' = [ ca |-> canonicalize(hashIn.a),
                    cb |-> canonicalize(hashIn.b),
                    ha |-> computeEventHash(hashIn.prevHash, hashIn.a),
                    hb |-> computeEventHash(hashIn.prevHash, hashIn.b) ]
    /\ UNCHANGED <<polRules, polCtx, polResult, auxVars, riskVars, hashIn, now, ledgerVars,
                   forensicVars, gateVars>>

NextHash == ComputeHashes

SpecHash == InitHash /\ [][NextHash]_vars

RECURSIVE SameLogicalValue(_, _)

\* x and y are the same logical value: equal scalars, arrays with the same
\* items in the same order, objects with the same keys and logically equal
\* values whatever the insertion order.
SameLogicalValue(x, y) ==
    IF x.t # y.t THEN FALSE
    ELSE IF x.t = "arr"
    THEN /\ Len(x.items) = Len(y.items)
         /\ \A i \in 1..Len(x.items) : SameLogicalValue(x.items[i], y.items[i])
    ELSE IF x.t = "obj"
    THEN /\ {x.props[i].k : i \in 1..Len(x.props)} = {y.props[i].k : i \in 1..Len(y.props)}
         /\ \A i \in 1..Len(x.props) :
              SameLogicalValue(x.props[i].v, PropValue(y.props, x.props[i].k))
    ELSE x = y

\* C12: two payloads have the same canonical string, and with one prevHash
\* the same hash, exactly when they are the same logical object: key
\* insertion order at any depth is ignored, array order is kept, and a
\* difference in any field value gives different canonical strings.
C12_CanonicalExactlyLogical ==
    hashOut # NoHashOut =>
        /\ SameLogicalValue(hashIn.a, hashIn.b) <=> (hashOut.ca = hashOut.cb)
        /\ SameLogicalValue(hashIn.a, hashIn.b) <=> (hashOut.ha = hashOut.hb)

----------------------------------------------------------------------------
(* Risk scoring: apps/api/src/lib/risk.ts                                  *)

\* Mutant: the configured list is matched in lower case too.
requiresHumanApproval_listLowerCased(action, rules) ==
    \/ toLowerCase(action) \in HIGH_RISK_ACTIONS
    \/ toLowerCase(action) \in rules.require_approval_actions

requiresHumanApproval(action, rules) ==
    \/ toLowerCase(action) \in HIGH_RISK_ACTIONS
    \/ action \in rules.require_approval_actions

\* Number(x.toFixed(2)) of n / d, in hundredths.
RoundDiv(n, d) == (2 * n + d) \div (2 * d)

Max2(a, b) == IF a > b THEN a ELSE b
Min2(a, b) == IF a < b THEN a ELSE b

\* Mutant: the known-good signal human_approval_consumed earns a discount.
computeRiskScore_approvalDiscount(signals, action, decision, context) ==
    LET highRisk == IF toLowerCase(action) \in HIGH_RISK_ACTIONS THEN 45 ELSE 0
        unknownTool == IF "unknown_tool" \in signals THEN 20 ELSE 0
        burst == IF "burst_rate" \in signals THEN 20 ELSE 0
        drift == IF "behavior_drift" \in signals THEN 15 ELSE 0
        blocked == IF decision = "BLOCK" THEN 10 ELSE 0
        discount == IF "human_approval_consumed" \in signals THEN 20 ELSE 0
        score == 5 + highRisk + unknownTool + burst + drift + blocked - discount
    IN  Max2(0, Min2(100, score))

\* Mutant: the 45 points follow the high_risk_action signal, not the action.
computeRiskScore_signalTied(signals, action, decision, context) ==
    LET highRisk == IF "high_risk_action" \in signals THEN 45 ELSE 0
        unknownTool == IF "unknown_tool" \in signals THEN 20 ELSE 0
        burst == IF "burst_rate" \in signals THEN 20 ELSE 0
        drift == IF "behavior_drift" \in signals THEN 15 ELSE 0
        offHours == IF "off_hours_execution" \in signals THEN 10 ELSE 0
        newPattern == IF "new_action_pattern" \in signals THEN 12 ELSE 0
        blocked == IF decision = "BLOCK" THEN 10 ELSE 0
        denom == Max2(100, context.baselineAvgPerMinute)
        multiplier ==
            IF context.burstRate > 0 /\ context.baselineAvgPerMinute > 0
            THEN IF context.burstRate * 100 >= 3 * denom THEN 12
                 ELSE IF context.burstRate * 100 >= 2 * denom THEN 6 ELSE 0
            ELSE 0
        history ==
            IF context.baselineAvgRiskScore > 0 /\ decision = "ALLOW"
            THEN IF context.baselineAvgRiskScore >= 16000 THEN 8
                 ELSE (context.baselineAvgRiskScore + 1000) \div 2000
            ELSE 0
        flagOff == IF context.isOffHours THEN 5 ELSE 0
        flagNew == IF context.isNewPattern THEN 5 ELSE 0
        score == 5 + highRisk + unknownTool + burst + drift + offHours + newPattern
                   + blocked + multiplier + history + flagOff + flagNew
    IN  Max2(0, Min2(100, score))

\* context.baselineAvgRiskScore and context.baselineAvgPerMinute in hundredths.
computeRiskScore(signals, action, decision, context) ==
    LET highRisk == IF toLowerCase(action) \in HIGH_RISK_ACTIONS THEN 45 ELSE 0
        unknownTool == IF "unknown_tool" \in signals THEN 20 ELSE 0
        burst == IF "burst_rate" \in signals THEN 20 ELSE 0
        drift == IF "behavior_drift" \in signals THEN 15 ELSE 0
        offHours == IF "off_hours_execution" \in signals THEN 10 ELSE 0
        newPattern == IF "new_action_pattern" \in signals THEN 12 ELSE 0
        blocked == IF decision = "BLOCK" THEN 10 ELSE 0
        denom == Max2(100, context.baselineAvgPerMinute)
        multiplier ==
            IF context.burstRate > 0 /\ context.baselineAvgPerMinute > 0
            THEN IF context.burstRate * 100 >= 3 * denom THEN 12
                 ELSE IF context.burstRate * 100 >= 2 * denom THEN 6 ELSE 0
            ELSE 0
        \* Math.round(Math.min(8, avg / 20))
        history ==
            IF context.baselineAvgRiskScore > 0 /\ decision = "ALLOW"
            THEN IF context.baselineAvgRiskScore >= 16000 THEN 8
                 ELSE (context.baselineAvgRiskScore + 1000) \div 2000
            ELSE 0
        flagOff == IF context.isOffHours THEN 5 ELSE 0
        flagNew == IF context.isNewPattern THEN 5 ELSE 0
        score == 5 + highRisk + unknownTool + burst + drift + offHours + newPattern
                   + blocked + multiplier + history + flagOff + flagNew
    IN  Max2(0, Min2(100, score))

\* Every signal some part of the program emits.
SignalVocabulary ==
    { "high_risk_action", "unknown_tool", "burst_rate", "behavior_drift",
      "off_hours_execution", "new_action_pattern", "human_approval_required",
      "human_approval_consumed" }

\* Arguments of computeRiskScore: any signal set; a plain and a high-risk
\* action, the latter in both cases; no history, a low and a high average
\* risk; a baseline rate of none, half a call and two calls a minute; no
\* burst, and bursts of four and six calls.
RiskInputs ==
    [ signals : SUBSET SignalVocabulary,
      action : {"read", "delete", "DELETE"},
      decision : {"ALLOW", "BLOCK"},
      context : [ baselineAvgRiskScore : {0, 5000, 17000},
                  baselineAvgPerMinute : {0, 50, 200},
                  burstRate : {0, 4, 6},
                  isOffHours : BOOLEAN,
                  isNewPattern : BOOLEAN ] ]

InitRisk ==
    /\ riskIn \in RiskInputs
    /\ riskOut = NoRiskOut
    /\ HashIdle
    /\ polRules = [mode |-> "BALANCED"]
    /\ polCtx = [tool |-> "kb", action |-> "read", burstRate |-> 0]
    /\ polResult = NoResult
    /\ AuxIdle
    /\ LedgerEmpty
    /\ ForensicsIdle
    /\ GateIdle

\* One call computeRiskScore(signals, action, decision, context).
ComputeRisk ==
    /\ riskOut.score = -1
    /\ riskOut' = [riskOut EXCEPT !.score =
                      computeRiskScore(riskIn.signals, riskIn.action, riskIn.decision,
                                       riskIn.context)]
    /\ UNCHANGED <<polRules, polCtx, polResult, auxVars, riskIn, hashVars, now, ledgerVars,
                   forensicVars, gateVars>>

\* A second call with one more signal and the same action, decision, context.
ComputeRiskWith(s) ==
    /\ riskOut.score # -1
    /\ riskOut.added = NULL
    /\ s \notin riskIn.signals
    /\ riskIn' = [riskIn EXCEPT !.signals = @ \cup {s}]
    /\ riskOut' = [ before |-> riskOut.score,
                    score |-> computeRiskScore(riskIn.signals \cup {s}, riskIn.action,
                                               riskIn.decision, riskIn.context),
                    added |-> s ]
    /\ UNCHANGED <<polRules, polCtx, polResult, auxVars, hashVars, now, ledgerVars, forensicVars,
                   gateVars>>

NextRisk ==
    \/ ComputeRisk
    \/ \E s \in SignalVocabulary : ComputeRiskWith(s)

SpecRisk == InitRisk /\ [][NextRisk]_vars

\* C11: computeRiskScore returns an integer in [0,100], and the score of a
\* call with one more signal of the vocabulary and the same action, decision
\* and context is never lower than the score without it.
C11_RiskBoundedMonotone ==
    /\ riskOut.score # -1 => riskOut.score \in 0..100
    /\ riskOut.added # NULL => riskOut.before <= riskOut.score

\* Witness C11: adding behavior_drift raised a score that stayed below the cap.
C11_Witness ==
    /\ riskOut.added = "behavior_drift"
    /\ riskOut.before < riskOut.score
    /\ riskOut.score < 100

\* The additions C24 lists, from the arguments of the last call; averages
\* are held in hundredths.
C24_Sum(highRisk) ==
    LET c == riskIn.context
        has(s) == s \in riskIn.signals
        \* burstRate / max(1, baselineAvgPerMinute), both positive
        ratioAtLeast(n) ==
            /\ c.burstRate > 0 /\ c.baselineAvgPerMinute > 0
            /\ c.burstRate * 100 >= n * Max2(100, c.baselineAvgPerMinute)
        \* round(min(8, baselineAvgRiskScore / 20)): the integer nearest to
        \* it, the upper one of two
        capped == Min2(16000, c.baselineAvgRiskScore)
        rounded == CHOOSE r \in 0..8 : 2000 * r - 1000 <= capped /\ capped < 2000 * r + 1000
    IN  5 + (IF highRisk THEN 45 ELSE 0)
          + (IF has("unknown_tool") THEN 20 ELSE 0)
          + (IF has("burst_rate") THEN 20 ELSE 0)
          + (IF has("behavior_drift") THEN 15 ELSE 0)
          + (IF has("off_hours_execution") THEN 10 ELSE 0)
          + (IF has("new_action_pattern") THEN 12 ELSE 0)
          + (IF riskIn.decision = "BLOCK" THEN 10 ELSE 0)
          + (IF ratioAtLeast(3) THEN 12 ELSE IF ratioAtLeast(2) THEN 6 ELSE 0)
          + (IF riskIn.decision = "ALLOW" /\ c.baselineAvgRiskScore > 0 THEN rounded ELSE 0)
          + (IF c.isOffHours THEN 5 ELSE 0)
          + (IF c.isNewPattern THEN 5 ELSE 0)

C24_Clamp(n) == IF n < 0 THEN 0 ELSE IF n > 100 THEN 100 ELSE n

\* C24 as stated: computeRiskScore is the sum of the listed additions,
\* clamped to [0,100], the 45 points going to an action that is one of the
\* six names of the vocabulary.
C24_ScoreFormula ==
    riskOut.score # -1 =>
        riskOut.score = C24_Clamp(C24_Sum(riskIn.action \in HIGH_RISK_ACTIONS))

\* C24 amended: the same, the 45 points going to an action that, put in
\* lower case, is in the vocabulary.
C24_ScoreFormulaFolded ==
    riskOut.score # -1 =>
        riskOut.score
          = C24_Clamp(C24_Sum(toLowerCase(riskIn.action) \in HIGH_RISK_ACTIONS))

\* Witness C24: DELETE without the high_risk_action signal, allowed, with a
\* burst of twice the baseline rate and a history of average risk 50:
\* 5 + 45 + 6 + 3.
C24_Witness ==
    /\ riskOut.score = 59
    /\ riskIn.action = "DELETE"
    /\ riskIn.signals = {}
    /\ riskIn.decision = "ALLOW"
    /\ riskIn.context.burstRate = 4
    /\ riskIn.context.baselineAvgPerMinute = 200
    /\ riskIn.context.baselineAvgRiskScore = 5000

----------------------------------------------------------------------------
(* evaluateAndLogAction: apps/api/src/services/actionService.ts            *)

\* prisma.auditLogEvent.count: the agent's events of the trailing minute.
CountBurst(w, agentId) ==
    Cardinality({ i \in 1..Len(events) :
                    /\ events[i].workspaceId = w
                    /\ events[i].agentId = agentId
                    /\ events[i].createdAt >= now - BURST_WINDOW })

\* prisma.policy.findFirst({ id: agent.activePolicyId, workspaceId })
PolicyFound(input) ==
    /\ input.agent.activePolicyId \in PolicyIds
    /\ policies[input.agent.activePolicyId].workspaceId = input.agent.workspaceId

DefaultRules ==
    normalizePolicyRules(
        [ mode |-> "BALANCED", allow_actions |-> {}, deny_actions |-> {},
          allow_tools |-> {}, deny_tools |-> {}, require_approval_actions |-> {} ],
        NULL)

\* The rule set in force when the approval gate is reached.
EffectiveRules(input) ==
    IF /\ input.forceBlockReason = NULL
       /\ input.agent.status # "DISABLED"
       /\ input.agent.activePolicyId # NULL
       /\ PolicyFound(input)
    THEN LET policy == policies[input.agent.activePolicyId]
         IN  normalizePolicyRules(policy.rules, policy.mode)
    ELSE DefaultRules

\* Mutant: the agent's status is looked at before the forced-block reason.
BaseDecision_disabledFirst(input, burstRate) ==
    IF input.agent.status = "DISABLED"
    THEN [decision |-> "BLOCK", reason |-> "agent_disabled", signals |-> {}]
    ELSE IF input.forceBlockReason # NULL
    THEN [decision |-> "BLOCK", reason |-> input.forceBlockReason, signals |-> {}]
    ELSE IF /\ input.agent.activePolicyId # NULL
            /\ PolicyFound(input)
            /\ policies[input.agent.activePolicyId].status # "APPROVED"
    THEN [decision |-> "BLOCK", reason |-> "policy_not_approved", signals |-> {}]
    ELSE evaluatePolicy(EffectiveRules(input),
                        [tool |-> input.tool, action |-> input.action,
                         burstRate |-> burstRate])

\* Mutant: the status of the assigned policy is not looked at.
BaseDecision_anyStatus(input, burstRate) ==
    IF input.forceBlockReason # NULL
    THEN [decision |-> "BLOCK", reason |-> input.forceBlockReason, signals |-> {}]
    ELSE IF input.agent.status = "DISABLED"
    THEN [decision |-> "BLOCK", reason |-> "agent_disabled", signals |-> {}]
    ELSE evaluatePolicy(EffectiveRules(input),
                        [tool |-> input.tool, action |-> input.action,
                         burstRate |-> burstRate])

\* Decision, reason and signals before the baseline signals and the gate.
BaseDecision(input, burstRate) ==
    IF input.forceBlockReason # NULL
    THEN [decision |-> "BLOCK", reason |-> input.forceBlockReason, signals |-> {}]
    ELSE IF input.agent.status = "DISABLED"
    THEN [decision |-> "BLOCK", reason |-> "agent_disabled", signals |-> {}]
    ELSE IF /\ input.agent.activePolicyId # NULL
            /\ PolicyFound(input)
            /\ policies[input.agent.activePolicyId].status # "APPROVED"
    THEN [decision |-> "BLOCK", reason |-> "policy_not_approved", signals |-> {}]
    ELSE evaluatePolicy(EffectiveRules(input),
                        [tool |-> input.tool, action |-> input.action,
                         burstRate |-> burstRate])

\* Mutant: a key seen three times still counts as new.
BaselineSignals_noveltyInclusive(input, baseline, burstRate) ==
    (IF /\ baseline.sampleCount >= 5
        /\ baseline.avgPerMinute > 0
        /\ burstRate * 100 >= 2 * Max2(100, baseline.avgPerMinute)
     THEN {"behavior_drift"} ELSE {})
    \cup (IF baseline.sampleCount <= 3 THEN {"new_action_pattern"} ELSE {})
    \cup (IF input.isOffHours /\ toLowerCase(input.action) \in HIGH_RISK_ACTIONS
          THEN {"off_hours_execution"} ELSE {})

\* behavior_drift, new_action_pattern, off_hours_execution.
BaselineSignals(input, baseline, burstRate) ==
    (IF /\ baseline.sampleCount >= 5
        /\ baseline.avgPerMinute > 0
        /\ burstRate * 100 >= 2 * Max2(100, baseline.avgPerMinute)
     THEN {"behavior_drift"} ELSE {})
    \cup (IF baseline.sampleCount < 3 THEN {"new_action_pattern"} ELSE {})
    \cup (IF input.isOffHours /\ toLowerCase(input.action) \in HIGH_RISK_ACTIONS
          THEN {"off_hours_execution"} ELSE {})

\* Baseline rows a key may have: none yet, or one of four to six samples
\* with an average rate of none (every call came more than a minute after
\* the agent's last one), half a call, one, one and a half or three calls a
\* minute.
SigBaselines ==
    {NoBaseline}
    \cup [ exists : {TRUE}, avgRiskScore : {500}, avgPerMinute : {0, 50, 100, 150, 300},
           sampleCount : {4, 5, 6} ]

SigInputs ==
    [ action : {"read", "delete"}, isOffHours : BOOLEAN, burstRate : {0, 1, 2, 3, 6},
      baseline : SigBaselines ]

InitSignals ==
    /\ sigIn \in SigInputs
    /\ sigOut = {"none"}
    /\ polApproval = {}
    /\ polBalanced = NoResult
    /\ polRules = [mode |-> "BALANCED"]
    /\ polCtx = [tool |-> "kb", action |-> "read", burstRate |-> 0]
    /\ polResult = NoResult
    /\ RiskIdle
    /\ HashIdle
    /\ LedgerEmpty
    /\ ForensicsIdle
    /\ GateIdle

\* Lines 120-136 on the baseline row and burst count read at lines 41-58.
DeriveSignals ==
    /\ sigOut = {"none"}
    /\ sigOut' = BaselineSignals(sigIn, sigIn.baseline, sigIn.burstRate)
    /\ UNCHANGED <<polRules, polCtx, polResult, polApproval, polBalanced, sigIn, riskVars,
                   hashVars, now, ledgerVars, forensicVars, gateVars>>

NextSignals == DeriveSignals

SpecSignals == InitSignals /\ [][NextSignals]_vars

\* C28: a request carries behavior_drift exactly when the baseline read
\* before the update has sampleCount >= 5 and burstRate / max(1,
\* avgCallsPerMinute) >= 2, also when that average is 0 (averages are held
\* in hundredths).
C28_DriftExactly ==
    sigOut # {"none"} =>
        ("behavior_drift" \in sigOut)
            = ( /\ sigIn.baseline.sampleCount >= 5
                /\ sigIn.burstRate * 100 >= 2 * Max2(100, sigIn.baseline.avgPerMinute) )

\* Mutant: the lookup forgets consumedAt: null.
ApprovalMatches_ignoreConsumed(row, w, agentId, at) ==
    /\ row.workspaceId = w
    /\ row.agentId = agentId
    /\ row.status = "APPROVED"
    /\ row.expiresAt > at

\* Mutant: the lookup accepts an approval at the instant it expires.
ApprovalMatches_expiryInclusive(row, w, agentId, at) ==
    /\ row.workspaceId = w
    /\ row.agentId = agentId
    /\ row.status = "APPROVED"
    /\ row.consumedAt = NoDate
    /\ row.expiresAt >= at

\* The where clause of actionApprovalRequest.findFirst, id apart.
ApprovalMatches(row, w, agentId, at) ==
    /\ row.workspaceId = w
    /\ row.agentId = agentId
    /\ row.status = "APPROVED"
    /\ row.consumedAt = NoDate
    /\ row.expiresAt > at

\* The routes build the input from the rows they look up: the agent's status
\* is the stored one; POST /agent/actions and POST /runtime/:provider/actions
\* set forceBlockReason to key_revoked when the key presented is revoked and
\* the runtime route sets its own reasons for a key that is not; POST
\* /simulate presents no key and sets no reason.
KeyRecordGives(input) ==
    LET revoked == {k \in KeyIds : /\ apiKeys[k].agentId = input.agent.id
                                   /\ apiKeys[k].revokedAt # NoDate}
        active == {k \in KeyIds : /\ apiKeys[k].agentId = input.agent.id
                                  /\ apiKeys[k].revokedAt = NoDate}
    IN  /\ input.agent.status = agents[input.agent.id]
        /\ input.forceBlockReason = "key_revoked" => revoked # {}
        /\ input.forceBlockReason \notin {NULL, "key_revoked"} => active # {}

\* Lines 39-138: burst count, baseline and policy reads, base decision and
\* signals, and whether the approval gate applies.
StartCall(p, input) ==
    /\ pc[p] = "idle"
    /\ KeyRecordGives(input)
    /\ LET w == input.agent.workspaceId
           burstRate == CountBurst(w, input.agent.id)
           baseline == baselines[<<input.agent.id, input.tool, input.action>>]
           base == BaseDecision(input, burstRate)
           signals == base.signals \cup BaselineSignals(input, baseline, burstRate)
           needsGate == /\ base.decision = "ALLOW"
                        /\ requiresHumanApproval(input.action, EffectiveRules(input))
       IN  /\ needsGate =>
                Len(approvals)
                  + Cardinality({q \in Requests : pc[q] \in {"gate_find", "gate_create"}})
                  < MaxApprovals
           /\ req' = [req EXCEPT ![p] = input]
           /\ loc' = [loc EXCEPT ![p] =
                        [NoLoc EXCEPT !.decision = base.decision,
                                      !.reason = base.reason,
                                      !.signals = signals,
                                      !.burstRate = burstRate,
                                      !.baseline = baseline,
                                      !.startedAt = now]]
           /\ pc' = [pc EXCEPT ![p] =
                       IF needsGate
                       THEN IF input.approvalRequestId # NoId
                            THEN "gate_find" ELSE "gate_create"
                       ELSE "append_read"]
    /\ UNCHANGED <<polVars, flowVars, now, ledgerVars, forensicVars, approvals, baselines,
                   policies, rpc, rreq>>

\* A call arrives, within the bounds of the model.
RequestStart(p, input) ==
    /\ \A q \in Requests : q < p => pc[q] # "idle"    \* calls are numbered as they arrive
    /\ Cardinality({q \in Requests : pc[q] \notin {"idle", "done", "failed"}}) < MaxInFlight
    /\ tamperedId = NoId
    /\ Len(events) + PendingAppends < MaxEvents
    /\ StartCall(p, input)

\* Lines 141-156: look the approval up.
GateFind(p) ==
    /\ pc[p] = "gate_find"
    /\ LET id == req[p].approvalRequestId
           found == /\ id \in 1..Len(approvals)
                    /\ ApprovalMatches(approvals[id], req[p].agent.workspaceId,
                                       req[p].agent.id, now)
       IN  /\ loc' = [loc EXCEPT ![p].approvedRequest = IF found THEN id ELSE NoId,
                                 ![p].findAt = now]
           /\ pc' = [pc EXCEPT ![p] = IF found THEN "gate_update" ELSE "gate_create"]
    /\ UNCHANGED <<polVars, flowVars, now, ledgerVars, forensicVars, approvals, baselines,
                   policies, req, rpc, rreq>>

\* Lines 158-169: mark the approval found consumed.
GateUpdate(p) ==
    /\ pc[p] = "gate_update"
    /\ approvals' = [approvals EXCEPT ![loc[p].approvedRequest].consumedAt = now]
    /\ loc' = [loc EXCEPT ![p].signals = @ \cup {"human_approval_consumed"}]
    /\ pc' = [pc EXCEPT ![p] = "append_read"]
    /\ UNCHANGED <<polVars, flowVars, now, ledgerVars, forensicVars, baselines, policies,
                   req, rpc, rreq>>

\* Mutant: the new request expires 15 minutes after the call began.
GateCreate_ttlFromStart(p) ==
    /\ pc[p] = "gate_create"
    /\ Len(approvals) < MaxApprovals
    /\ approvals' = Append(approvals,
                           [ workspaceId |-> req[p].agent.workspaceId,
                             agentId |-> req[p].agent.id,
                             tool |-> req[p].tool,
                             action |-> req[p].action,
                             status |-> "PENDING",
                             expiresAt |-> loc[p].startedAt + APPROVAL_TTL,
                             consumedAt |-> NoDate ])
    /\ loc' = [loc EXCEPT ![p].decision = "BLOCK",
                          ![p].reason = "approval_required",
                          ![p].signals = @ \cup {"human_approval_required"},
                          ![p].approvalId = Len(approvals) + 1]
    /\ pc' = [pc EXCEPT ![p] = "append_read"]
    /\ UNCHANGED <<polVars, flowVars, now, ledgerVars, forensicVars, baselines, policies,
                   req, rpc, rreq>>

\* Lines 172-195: no approval consumed: block and open a Pending request.
GateCreate(p) ==
    /\ pc[p] = "gate_create"
    /\ Len(approvals) < MaxApprovals
    /\ approvals' = Append(approvals,
                           [ workspaceId |-> req[p].agent.workspaceId,
                             agentId |-> req[p].agent.id,
                             tool |-> req[p].tool,
                             action |-> req[p].action,
                             status |-> "PENDING",
                             expiresAt |-> now + APPROVAL_TTL,
                             consumedAt |-> NoDate ])
    /\ loc' = [loc EXCEPT ![p].decision = "BLOCK",
                          ![p].reason = "approval_required",
                          ![p].signals = @ \cup {"human_approval_required"},
                          ![p].approvalId = Len(approvals) + 1]
    /\ pc' = [pc EXCEPT ![p] = "append_read"]
    /\ UNCHANGED <<polVars, flowVars, now, ledgerVars, forensicVars, baselines, policies,
                   req, rpc, rreq>>

\* Lines 198-206: the score of a request with input r and locals l.
RiskOf(r, l) ==
    computeRiskScore(l.signals, r.action, l.decision,
                     [ baselineAvgRiskScore |-> l.baseline.avgRiskScore,
                       baselineAvgPerMinute |-> l.baseline.avgPerMinute,
                       burstRate |-> l.burstRate,
                       isOffHours |-> r.isOffHours,
                       isNewPattern |-> l.baseline.sampleCount < 3 ])

\* Mutant: the event's metadata carries no approval_request_id.
EventInputOf_noApprovalId(r, l) ==
    [ workspaceId |-> r.agent.workspaceId,
      agentId |-> r.agent.id,
      tool |-> r.tool,
      action |-> r.action,
      resource |-> NULL,
      decision |-> l.decision,
      reason |-> l.reason,
      metadata |-> [ signals |-> l.signals,
                     risk_score |-> l.riskScore,
                     approval_request_id |-> NoId,
                     risk_context |->
                         [ baseline_avg_risk |-> l.baseline.avgRiskScore,
                           baseline_avg_per_minute |-> l.baseline.avgPerMinute,
                           burst_rate |-> l.burstRate ] ],
      anomalyFlagged |-> l.signals # {},
      createdAt |-> NoDate ]

\* The AuditEventInput of lines 208-228.
EventInputOf(r, l) ==
    [ workspaceId |-> r.agent.workspaceId,
      agentId |-> r.agent.id,
      tool |-> r.tool,
      action |-> r.action,
      resource |-> NULL,
      decision |-> l.decision,
      reason |-> l.reason,
      metadata |-> [ signals |-> l.signals,
                     risk_score |-> l.riskScore,
                     approval_request_id |-> l.approvalId,
                     risk_context |->
                         [ baseline_avg_risk |-> l.baseline.avgRiskScore,
                           baseline_avg_per_minute |-> l.baseline.avgPerMinute,
                           burst_rate |-> l.burstRate ] ],
      anomalyFlagged |-> l.signals # {},
      createdAt |-> NoDate ]

\* Mutant: the averages are cut after two decimals, not rounded.
UpsertBaseline_truncates(current, l) ==
    LET old == l.baseline
        nextSampleCount == old.sampleCount + 1
    IN  IF ~current.exists
        THEN [ exists |-> TRUE,
               avgRiskScore |-> l.riskScore * 100,
               avgPerMinute |-> l.burstRate * 100,
               sampleCount |-> 1 ]
        ELSE [ exists |-> TRUE,
               avgRiskScore |->
                   (old.avgRiskScore * old.sampleCount + l.riskScore * 100)
                       \div nextSampleCount,
               avgPerMinute |->
                   (old.avgPerMinute * old.sampleCount + l.burstRate * 100)
                       \div nextSampleCount,
               sampleCount |-> nextSampleCount ]

\* The row the baseline upsert of lines 230-260 leaves, given the row in
\* the table and the locals of the request.
UpsertBaseline(current, l) ==
    LET old == l.baseline
        nextSampleCount == old.sampleCount + 1
    IN  IF ~current.exists
        THEN [ exists |-> TRUE,
               avgRiskScore |-> l.riskScore * 100,
               avgPerMinute |-> l.burstRate * 100,
               sampleCount |-> 1 ]
        ELSE [ exists |-> TRUE,
               avgRiskScore |->
                   RoundDiv(old.avgRiskScore * old.sampleCount + l.riskScore * 100,
                            nextSampleCount),
               avgPerMinute |->
                   RoundDiv(old.avgPerMinute * old.sampleCount + l.burstRate * 100,
                            nextSampleCount),
               sampleCount |-> nextSampleCount ]

\* Lines 198-228, first half of appendAuditEvent: score, open the
\* transaction, read the tail.
RequestAppendRead(p) ==
    /\ pc[p] = "append_read"
    /\ LET w == req[p].agent.workspaceId
       IN  /\ loc' = [loc EXCEPT ![p].riskScore = RiskOf(req[p], loc[p]),
                                 ![p].prevHash = ReadTail(w),
                                 ![p].sawRow = chainState[w].exists,
                                 ![p].createdAt = now]
           /\ overlap' = [overlap EXCEPT ![w] =
                            @ \/ (\E b \in Appenders :
                                    apc[b] = "tx" /\ areq[b].event.workspaceId = w)
                              \/ (\E q \in Requests \ {p} :
                                    pc[q] = "append_write"
                                    /\ req[q].agent.workspaceId = w)]
    /\ pc' = [pc EXCEPT ![p] = "append_write"]
    /\ UNCHANGED <<polVars, flowVars, now, events, chainState, apc, areq, forensicVars,
                   approvals, baselines, policies, req, rpc, rreq>>

\* Second half of appendAuditEvent: insert, upsert the tail, commit.  No
\* step of the pipeline specifications reads events back in id order (that
\* is AppendCommit and ReadBack), so here the fresh id is the next unused one.
RequestAppendCommit(p) ==
    /\ pc[p] = "append_write"
    /\ \E id \in {NextEventId} :
         LET row == NewEventRow(id, EventInputOf(req[p], loc[p]),
                                loc[p].prevHash, loc[p].createdAt)
             w == req[p].agent.workspaceId
         IN  /\ events' = Append(events, row)
             /\ chainState' = [chainState EXCEPT ![w] = UpsertChainState(@, row)]
             /\ loc' = [loc EXCEPT ![p].eventId = id,
                                   ![p].prevHash = GENESIS,
                                   ![p].sawRow = FALSE]
    /\ pc' = [pc EXCEPT ![p] = "baseline"]
    /\ UNCHANGED <<polVars, flowVars, now, apc, areq, overlap, forensicVars, approvals,
                   baselines, policies, req, rpc, rreq>>

\* Mutant: the append's failure is swallowed and the call goes on.
RequestAppendConflict_swallowed(p) ==
    /\ pc[p] = "append_write"
    /\ ~loc[p].sawRow
    /\ chainState[req[p].agent.workspaceId].exists
    /\ pc' = [pc EXCEPT ![p] = "baseline"]
    /\ UNCHANGED <<polVars, flowVars, now, ledgerVars, forensicVars, approvals, baselines,
                   policies, req, loc, rpc, rreq>>

\* The tail upsert fails (see AppendConflict): appendAuditEvent throws and
\* evaluateAndLogAction rejects.
RequestAppendConflict(p) ==
    /\ pc[p] = "append_write"
    /\ ~loc[p].sawRow
    /\ chainState[req[p].agent.workspaceId].exists
    /\ pc' = [pc EXCEPT ![p] = "failed"]
    /\ UNCHANGED <<polVars, flowVars, now, ledgerVars, forensicVars, approvals, baselines,
                   policies, req, loc, rpc, rreq>>

\* workspacePlaybook.findMany: the enabled playbooks of workspace w, oldest
\* first.
EnabledPlaybooks(w) ==
    SelectSeq([k \in PlaybookIds |-> k],
              LAMBDA k : /\ playbooks[k].exists
                         /\ playbooks[k].workspaceId = w
                         /\ playbooks[k].enabled)

\* void dispatchAuditEventToIntegrations(...): started at the return, never
\* awaited; with no active integration it ends at once.
Dispatched(w) == IF integrations[w] THEN "pending" ELSE "none"

\* Lines 230-274 and 421-430: upsert the baseline from the row read at the
\* start, then read the enabled playbooks; with none, lines 276-298: start
\* the dispatch and return the result.
BaselineUpsert(p) ==
    /\ pc[p] = "baseline"
    /\ LET k == <<req[p].agent.id, req[p].tool, req[p].action>>
           w == req[p].agent.workspaceId
           list == EnabledPlaybooks(w)
       IN  /\ baselines' = [baselines EXCEPT ![k] = UpsertBaseline(@, loc[p])]
           /\ pb' = [pb EXCEPT ![p] = [list |-> list, i |-> 1]]
           /\ pc' = [pc EXCEPT ![p] = IF list = << >> THEN "done" ELSE "playbooks"]
           /\ siem' = [siem EXCEPT ![p] = IF list = << >> THEN Dispatched(w) ELSE @]
    /\ loc' = [loc EXCEPT ![p].baseline = NoBaseline, ![p].burstRate = 0,
                          ![p].startedAt = NoDate, ![p].createdAt = NoDate]
    /\ UNCHANGED <<polVars, playbooks, executions, integrations, now, ledgerVars,
                   forensicVars, approvals, policies, req, rpc, rreq>>

\* Lines 236-260 when prisma.agentActionBaseline.upsert rejects (connection
\* lost, statement timeout): the await stands in no try block, so
\* evaluateAndLogAction rejects there; lines 262-298 do not run.
BaselineUpsertFails(p) ==
    /\ pc[p] = "baseline"
    /\ pc' = [pc EXCEPT ![p] = "failed"]
    /\ UNCHANGED <<polVars, flowVars, now, ledgerVars, forensicVars, approvals, baselines,
                   policies, req, loc, rpc, rreq>>

\* getSignalMatchers: the entries of match_signals that are non-empty
\* strings (the routes store strings only).
getSignalMatchers(value) == {item \in value : item # ""}

\* Mutant: one matching signal is enough.
PlaybookTriggers_anySignal(row, l) ==
    LET requiredSignals == getSignalMatchers(row.matchSignals)
    IN  /\ row.triggerDecision = NULL \/ row.triggerDecision = l.decision
        /\ l.riskScore >= row.minRiskScore
        /\ requiredSignals = {} \/ requiredSignals \cap l.signals # {}

\* decisionMatch, riskMatch and signalsMatch of the playbook loop.
PlaybookTriggers(row, l) ==
    LET requiredSignals == getSignalMatchers(row.matchSignals)
    IN  /\ row.triggerDecision = NULL \/ row.triggerDecision = l.decision
        /\ l.riskScore >= row.minRiskScore
        /\ requiredSignals = {} \/ requiredSignals \subseteq l.signals

\* playbookExecution.create for the playbook at the loop position, then the
\* next iteration or, after the last one, lines 276-298.  The insert
\* violates playbook_executions_playbook_id_fkey when the playbook row is
\* gone: from the SKIPPED create the error leaves the loop; from the
\* EXECUTED create it reaches the catch, whose FAILED create fails the same
\* way and leaves the loop; runPlaybooksForEvent and evaluateAndLogAction
\* then reject.
RecordExecution(p, status) ==
    LET k == pb[p].list[pb[p].i]
        last == pb[p].i = Len(pb[p].list)
        w == req[p].agent.workspaceId
    IN  IF playbooks[k].exists
        THEN /\ executions' = Append(executions,
                                     [ playbookId |-> k, eventId |-> loc[p].eventId,
                                       status |-> status ])
             /\ pb' = [pb EXCEPT ![p].i = @ + 1]
             /\ pc' = [pc EXCEPT ![p] = IF last THEN "done" ELSE "playbooks"]
             /\ siem' = [siem EXCEPT ![p] = IF last THEN Dispatched(w) ELSE @]
        ELSE /\ pc' = [pc EXCEPT ![p] = "failed"]
             /\ UNCHANGED <<executions, pb, siem>>

\* Mutant: the update stamps every key of the agent.
RevokeActiveKeys_restamps(table, agentId, at) ==
    [ k \in KeyIds |->
        IF table[k].agentId = agentId
        THEN [table[k] EXCEPT !.revokedAt = at] ELSE table[k] ]

\* agentApiKey.updateMany({ where: { agentId, revokedAt: null }, data: {
\* revokedAt: new Date() } }): one UPDATE statement.
RevokeActiveKeys(table, agentId, at) ==
    [ k \in KeyIds |->
        IF table[k].agentId = agentId /\ table[k].revokedAt = NoDate
        THEN [table[k] EXCEPT !.revokedAt = at] ELSE table[k] ]

\* Mutant: the update is left out.
DisableAgent_leftOut(table, agentId) == table

\* agent.update({ where: { id: agentId }, data: { status: 'DISABLED' } }).
DisableAgent(table, agentId) == [table EXCEPT ![agentId] = "DISABLED"]

\* The approval request a CREATE_APPROVAL playbook opens for the event's
\* agent, tool and action (ttlMinutes defaults to 15).
PlaybookApproval(p) ==
    [ workspaceId |-> req[p].agent.workspaceId, agentId |-> req[p].agent.id,
      tool |-> req[p].tool, action |-> req[p].action, status |-> "PENDING",
      expiresAt |-> now + APPROVAL_TTL, consumedAt |-> NoDate ]

\* The switch on playbook.actionType, lines 457-545, for a playbook that
\* does not call a webhook: the three database effects; a NOTIFY_WEBHOOK
\* playbook without url only sets the message.
PlaybookEffect(p, row) ==
    /\ agents' = IF row.actionType = "DISABLE_AGENT"
                 THEN DisableAgent(agents, req[p].agent.id) ELSE agents
    /\ apiKeys' = IF row.actionType = "REVOKE_ACTIVE_KEYS"
                  THEN RevokeActiveKeys(apiKeys, req[p].agent.id, now) ELSE apiKeys
    /\ IF row.actionType = "CREATE_APPROVAL"
       THEN /\ Len(approvals)
                 + Cardinality({q \in Requests : pc[q] \in {"gate_find", "gate_create"}})
                 < MaxApprovals
            /\ approvals' = Append(approvals, PlaybookApproval(p))
       ELSE UNCHANGED approvals

\* One iteration of the playbook loop up to its first await on the outside
\* world.  The rows come from the findMany snapshot; no handler of the
\* model edits a playbook, so the snapshot equals the stored row.
PlaybookStep(p) ==
    /\ pc[p] = "playbooks"
    /\ LET row == playbooks[pb[p].list[pb[p].i]]
       IN  IF ~PlaybookTriggers(row, loc[p])
           THEN /\ RecordExecution(p, "SKIPPED")
                /\ UNCHANGED <<agents, apiKeys, approvals>>
           ELSE IF row.actionType = "NOTIFY_WEBHOOK" /\ row.url # ""
           THEN /\ pc' = [pc EXCEPT ![p] = "webhook"]
                /\ UNCHANGED <<executions, pb, siem, agents, apiKeys, approvals>>
           ELSE /\ PlaybookEffect(p, row)
                /\ RecordExecution(p, "EXECUTED")
    /\ UNCHANGED <<pureVars, workflowVars, accessVars, playbooks, integrations, now, ledgerVars,
                   forensicVars, baselines, policies, req, loc, rpc, rreq>>

\* executeWebhook's fetch settles: resolved (any HTTP status) or rejected.
\* The call sets no timeout and no abort signal.
WebhookAnswer(p, ok) ==
    /\ pc[p] = "webhook"
    /\ RecordExecution(p, IF ok THEN "EXECUTED" ELSE "FAILED")
    /\ UNCHANGED <<polVars, playbooks, integrations, now, ledgerVars, forensicVars,
                   approvals, baselines, policies, req, loc, rpc, rreq>>

SiemOutcomes == {"delivered", "rejected"}

\* The detached dispatch settles: delivered, or rejected by a fetch error or
\* by the abort after WEBHOOK_TIMEOUT_MS; a rejection ends in the .catch
\* that logs it.
SiemSettle(p, outcome) ==
    /\ siem[p] = "pending"
    /\ siem' = [siem EXCEPT ![p] = outcome]
    /\ UNCHANGED <<polVars, playbooks, executions, integrations, pb, now, ledgerVars,
                   forensicVars, approvals, baselines, policies, pc, req, loc, rpc, rreq>>

\* DELETE /playbooks/:id; playbook_executions rows go with it (ON DELETE
\* CASCADE).
DeletePlaybook(k) ==
    /\ playbooks[k].exists
    /\ playbooks' = [playbooks EXCEPT ![k] = NoPlaybook]
    /\ executions' = SelectSeq(executions, LAMBDA e : e.playbookId # k)
    /\ UNCHANGED <<polVars, integrations, pb, siem, now, ledgerVars, forensicVars,
                   approvals, baselines, policies, pc, req, loc, rpc, rreq>>

\* PATCH /policies/:id with no rule change in the body, met by no other
\* policy request: the stored rules are rewritten normalized, the version
\* goes up by one, the status goes back to DRAFT and the submission is
\* cleared.
PatchPolicy(id) ==
    /\ policies[id].version < MaxVersion
    /\ policies' = [policies EXCEPT
                      ![id].rules = normalizePolicyRules(@, policies[id].mode),
                      ![id].version = @ + 1,
                      ![id].status = "DRAFT",
                      ![id].submitted = FALSE]
    /\ UNCHANGED <<polVars, flowVars, now, ledgerVars, forensicVars, approvals,
                   baselines, pc, req, loc, rpc, rreq>>

----------------------------------------------------------------------------
(* Approval resolution: apps/api/src/routes/approvals.ts                   *)

ResolveKinds == {"approve", "reject"}

\* POST /approvals/:id/approve|reject, up to the findUnique.  A handler that
\* reads a row that is not PENDING answers 400 and changes nothing: it is a
\* stuttering step.
ResolveRead(r, id, kind) ==
    /\ rpc[r] = "idle"
    /\ id \in 1..Len(approvals)
    /\ approvals[id].status = "PENDING"
    /\ rreq' = [rreq EXCEPT ![r] =
                  [id |-> id, kind |-> kind, status |-> approvals[id].status]]
    /\ rpc' = [rpc EXCEPT ![r] = "read"]
    /\ UNCHANGED <<polVars, flowVars, now, ledgerVars, forensicVars, approvals, baselines,
                   policies, pc, req, loc>>

\* The rest of the handler: 400 unless the row read was PENDING, else update.
ResolveWrite(r) ==
    /\ rpc[r] = "read"
    /\ approvals' =
         IF rreq[r].status # "PENDING" THEN approvals
         ELSE [approvals EXCEPT ![rreq[r].id].status =
                  IF rreq[r].kind = "approve" THEN "APPROVED" ELSE "REJECTED"]
    /\ rpc' = [rpc EXCEPT ![r] = "idle"]
    /\ rreq' = [rreq EXCEPT ![r] = NoResolve]
    /\ UNCHANGED <<polVars, flowVars, now, ledgerVars, forensicVars, baselines, policies,
                   pc, req, loc>>

----------------------------------------------------------------------------
(* The request pipeline with its approval gate                             *)

\* The pipeline is observed from the moment agent a1 has asked once, alone
\* and at time 0, for a delete without an approval id: the request was
\* blocked with approval_required, opened approval request 1, logged one
\* event and created the baseline of (a1, crm, delete).
FirstInput ==
    [ agent |-> Agent1, tool |-> "crm", action |-> "delete", forceBlockReason |-> NULL,
      approvalRequestId |-> NoId, isOffHours |-> FALSE ]

FirstLocBase ==
    LET base == BaseDecision(FirstInput, 0)
    IN  [NoLoc EXCEPT !.decision = "BLOCK",
                      !.reason = "approval_required",
                      !.signals = base.signals
                                    \cup BaselineSignals(FirstInput, NoBaseline, 0)
                                    \cup {"human_approval_required"},
                      !.approvalId = 1]

FirstLoc == [FirstLocBase EXCEPT !.riskScore = RiskOf(FirstInput, FirstLocBase)]

WarmStart ==
    /\ PolicyIdle
    /\ ForensicsIdle
    /\ now = 0
    /\ PoliciesApproved
    /\ approvals = << [ workspaceId |-> "w1", agentId |-> "a1", tool |-> "crm",
                        action |-> "delete", status |-> "PENDING",
                        expiresAt |-> APPROVAL_TTL, consumedAt |-> NoDate ] >>
    /\ \E id \in {1} :
         LET row == NewEventRow(id, EventInputOf(FirstInput, FirstLoc), GENESIS, 0)
         IN  /\ events = <<row>>
             /\ chainState = [w \in Workspaces |->
                   IF w = "w1"
                   THEN [exists |-> TRUE, lastEventId |-> id, lastHash |-> row.hash]
                   ELSE [exists |-> FALSE, lastEventId |-> NoId, lastHash |-> GENESIS]]
    /\ baselines = [k \in BaselineKeys |->
                      IF k = <<"a1", "crm", "delete">>
                      THEN UpsertBaseline(NoBaseline, FirstLoc) ELSE NoBaseline]
    /\ apc = [a \in Appenders |-> "idle"]
    /\ areq = [a \in Appenders |-> NoAppend]
    /\ overlap = [w \in Workspaces |-> FALSE]
    /\ pc = [p \in Requests |-> "idle"]
    /\ req = [p \in Requests |-> NoReq]
    /\ loc = [p \in Requests |-> NoLoc]
    /\ rpc = [r \in Resolvers |-> "idle"]
    /\ rreq = [r \in Resolvers |-> NoResolve]

\* No playbook and no integration is configured.
Init == WarmStart /\ FlowIdle /\ DirectoryActive

RequestSteps(p) ==
    \/ GateFind(p)
    \/ GateUpdate(p)
    \/ GateCreate(p)
    \/ RequestAppendRead(p)
    \/ RequestAppendCommit(p)
    \/ BaselineUpsert(p)

ResolveSteps ==
    \/ \E r \in Resolvers, id \in ApprovalIds, kind \in ResolveKinds :
         ResolveRead(r, id, kind)
    \/ \E r \in Resolvers : ResolveWrite(r)

Next ==
    \/ Tick
    \/ \E p \in Requests, input \in RequestInputs : RequestStart(p, input)
    \/ \E p \in Requests : RequestSteps(p)
    \/ \E p \in Requests : RequestAppendConflict(p)
    \/ ResolveSteps

Spec == Init /\ [][Next]_vars

\* Non-overlapping operations: a request or a resolution starts only when
\* no other is running (so no append ever meets a tail row created since it
\* read the tail).
Quiescent ==
    /\ \A q \in Requests : pc[q] \in {"idle", "done", "failed"}
    /\ \A r \in Resolvers : rpc[r] = "idle"

RequestStartSeq(p, input) == Quiescent /\ RequestStart(p, input)

ResolveReadSeq(r, id, kind) == Quiescent /\ ResolveRead(r, id, kind)

NextSeq ==
    \/ Tick
    \/ \E p \in Requests, input \in RequestInputs : RequestStartSeq(p, input)
    \/ \E p \in Requests : RequestSteps(p)
    \/ \E r \in Resolvers, id \in ApprovalIds, kind \in ResolveKinds :
         ResolveReadSeq(r, id, kind)
    \/ \E r \in Resolvers : ResolveWrite(r)

SpecSeq == Init /\ [][NextSeq]_vars

----------------------------------------------------------------------------
(* One request at a time, with playbooks, integrations and policy edits    *)

\* The playbooks at the start, created in id order, in turn: in workspace
\* w1 a webhook notification on every BLOCK, a webhook playbook without url
\* for high-risk actions and a disabled one; in workspace w2 a webhook
\* notification on every event.
PlaybookRow(k) ==
    [ exists |-> TRUE,
      workspaceId |-> IF k % 4 = 0 THEN "w2" ELSE "w1",
      enabled |-> k % 4 # 3,
      triggerDecision |-> IF k % 4 = 1 THEN "BLOCK" ELSE NULL,
      minRiskScore |-> 0,
      matchSignals |-> IF k % 4 = 2 THEN {"high_risk_action"} ELSE {},
      actionType |-> "NOTIFY_WEBHOOK",
      url |-> IF k % 4 = 2 THEN "" ELSE "https://hooks.example/notify" ]

\* Inputs as POST /runtime/:provider/actions and POST /actions build them.
FlowInputs ==
    [ agent : {Agent1}, tool : ReqTools, action : {"delete"},
      forceBlockReason : {NULL}, approvalRequestId : {NoId, 1}, isOffHours : {FALSE} ]
    \cup
    [ agent : {Agent1, Agent3}, tool : ReqTools, action : {"read"},
      forceBlockReason : {NULL}, approvalRequestId : {NoId}, isOffHours : {FALSE} ]
    \cup
    [ agent : {[Agent1 EXCEPT !.status = "DISABLED"]}, tool : ReqTools,
      action : {"delete"}, forceBlockReason : {NULL, "key_revoked"},
      approvalRequestId : {NoId}, isOffHours : {FALSE} ]
    \cup
    [ agent : {Agent1}, tool : ReqTools, action : {"delete"},
      forceBlockReason : {"runtime_unregistered", "runtime_signature_invalid"},
      approvalRequestId : {NoId}, isOffHours : {FALSE} ]

\* A login in workspace w2 logged by the auth route while requests run.
FlowAppendInputs == {e \in AppendInputs : e.workspaceId = "w2" /\ e.createdAt = NoDate}

\* The append that may create a workspace's tail row: only such an append
\* can make another one fail.
FirstAppendRead(a, event) ==
    /\ ~chainState[event.workspaceId].exists
    /\ AppendRead(a, event)

\* The playbook_executions rows of the first request (event 1, BLOCK
\* approval_required, signals high_risk_action and new_action_pattern): one
\* per enabled playbook; webhookStatus is what its webhook calls came to.
FirstExecutions(webhookStatus) ==
    LET list == SelectSeq([k \in PlaybookIds |-> k],
                          LAMBDA k : /\ PlaybookRow(k).enabled
                                     /\ PlaybookRow(k).workspaceId
                                          = FirstInput.agent.workspaceId)
    IN  [ i \in 1..Len(list) |->
            [ playbookId |-> list[i],
              eventId |-> 1,
              status |-> IF ~PlaybookTriggers(PlaybookRow(list[i]), FirstLoc)
                         THEN "SKIPPED"
                         ELSE IF PlaybookRow(list[i]).url # ""
                         THEN webhookStatus ELSE "EXECUTED" ] ]

\* The calls observed from start to end.
FlowCalls == {1}

\* As Init, in workspaces that have playbooks and an active integration.
InitFlow ==
    /\ WarmStart
    /\ DirectoryAny
    /\ playbooks = [k \in PlaybookIds |-> PlaybookRow(k)]
    /\ \E webhookStatus \in {"EXECUTED", "FAILED"} :
          executions = FirstExecutions(webhookStatus)
    /\ integrations = [w \in Workspaces |-> TRUE]
    /\ pb = [p \in Requests |-> NoRun]
    /\ siem = [p \in Requests |-> "none"]

NextFlow ==
    \/ \E p \in FlowCalls, input \in FlowInputs : RequestStartSeq(p, input)
    \/ \E p \in FlowCalls : RequestSteps(p)
    \/ \E p \in FlowCalls : RequestAppendConflict(p)
    \/ \E p \in FlowCalls : PlaybookStep(p)
    \/ \E p \in FlowCalls, ok \in BOOLEAN : WebhookAnswer(p, ok)
    \/ \E p \in FlowCalls, outcome \in SiemOutcomes : SiemSettle(p, outcome)
    \/ \E id \in PolicyIds : PatchPolicy(id)
    \/ \E id \in ApprovalIds, kind \in ResolveKinds : ResolveReadSeq(1, id, kind)
    \/ ResolveWrite(1)
    \/ \E event \in FlowAppendInputs : FirstAppendRead(1, event)
    \/ AppendCommit(1)
    \/ AppendConflict(1)

SpecFlow == InitFlow /\ [][NextFlow]_vars

\* The same, while an administrator may delete playbooks.
NextFlowDelete ==
    \/ NextFlow
    \/ \E k \in PlaybookIds : DeletePlaybook(k)

SpecFlowDelete == InitFlow /\ [][NextFlowDelete]_vars

\* Trigger conditions an administrator may give a playbook (POST
\* /playbooks): any decision, a threshold no score, some scores or every
\* score reaches, and match_signals of none, one or two signals or with an
\* empty entry.
MatchRows ==
    [ exists : {TRUE}, workspaceId : {"w1"}, enabled : {TRUE},
      triggerDecision : {NULL, "ALLOW", "BLOCK"},
      minRiskScore : {0, 60, 100},
      matchSignals : { {}, {"high_risk_action"}, {"high_risk_action", "burst_rate"},
                       {""}, {"", "new_action_pattern"} },
      actionType : {"NOTIFY_WEBHOOK"},
      url : {"https://hooks.example/notify"} ]

\* The playbooks were created after the first call, the oldest with any of
\* the trigger conditions.
InitMatch ==
    /\ WarmStart
    /\ DirectoryAny
    /\ \E row \in MatchRows :
          playbooks = [k \in PlaybookIds |-> IF k = 1 THEN row ELSE PlaybookRow(k)]
    /\ executions = << >>
    /\ integrations = [w \in Workspaces |-> TRUE]
    /\ pb = [p \in Requests |-> NoRun]
    /\ siem = [p \in Requests |-> "none"]

NextMatch ==
    \/ \E p \in FlowCalls, input \in FlowInputs : RequestStartSeq(p, input)
    \/ \E p \in FlowCalls : RequestSteps(p)
    \/ \E p \in FlowCalls : PlaybookStep(p)
    \/ \E p \in FlowCalls, ok \in BOOLEAN : WebhookAnswer(p, ok)
    \/ \E p \in FlowCalls, outcome \in SiemOutcomes : SiemSettle(p, outcome)
    \/ \E id \in ApprovalIds, kind \in ResolveKinds : ResolveReadSeq(1, id, kind)
    \/ ResolveWrite(1)

SpecMatch == InitMatch /\ [][NextMatch]_vars

\* The same as SpecFlow, while the database may refuse the baseline write.
NextFlowFault ==
    \/ NextFlow
    \/ \E p \in FlowCalls : BaselineUpsertFails(p)

SpecFlowFault == InitFlow /\ [][NextFlowFault]_vars

----------------------------------------------------------------------------
(* One client calling again and again                                      *)

MaxHistory == 6       \* rows audit_log_events may hold when one client calls in turn

\* Agent a1 reads, is refused a read because its key was revoked or because
\* it was disabled, and is refused a delete.
HistoryInputs ==
    [ agent : {Agent1, [Agent1 EXCEPT !.status = "DISABLED"]}, tool : ReqTools,
      action : {"read"}, forceBlockReason : {NULL}, approvalRequestId : {NoId},
      isOffHours : {FALSE} ]
    \cup
    [ agent : {Agent1}, tool : ReqTools, action : {"read", "delete"},
      forceBlockReason : {"key_revoked"}, approvalRequestId : {NoId},
      isOffHours : {FALSE} ]

HistoryCalls == {1}

\* The next call arrives when the one before has returned.
HistoryStart(p, input) ==
    /\ Quiescent
    /\ Len(events) < MaxHistory
    /\ StartCall(p, input)

\* The call has returned (line 291): its locals are gone.
RequestReturn(p) ==
    /\ pc[p] = "done"
    /\ pc' = [pc EXCEPT ![p] = "idle"]
    /\ req' = [req EXCEPT ![p] = NoReq]
    /\ loc' = [loc EXCEPT ![p] = NoLoc]
    /\ pb' = [pb EXCEPT ![p] = NoRun]
    /\ siem' = [siem EXCEPT ![p] = "none"]
    /\ UNCHANGED <<polVars, playbooks, executions, integrations, now, ledgerVars,
                   forensicVars, approvals, baselines, policies, rpc, rreq>>

NextHistory ==
    \/ Tick
    \/ \E p \in HistoryCalls, input \in HistoryInputs : HistoryStart(p, input)
    \/ \E p \in HistoryCalls : RequestAppendRead(p)
    \/ \E p \in HistoryCalls : RequestAppendCommit(p)
    \/ \E p \in HistoryCalls : BaselineUpsert(p)
    \/ \E p \in HistoryCalls : RequestReturn(p)

\* As Init, for an agent a1 that is ACTIVE or was disabled.
InitHistory == WarmStart /\ FlowIdle /\ DirectoryAny

SpecHistory == InitHistory /\ [][NextHistory]_vars

\* The requests that went through the approval gate.
PastGate(p) == pc[p] \in {"append_read", "append_write", "baseline", "done", "failed"}

\* Request p bore approval id and its action needed a human approval.
BearsApproval(p, id) ==
    /\ pc[p] # "idle"
    /\ req[p].approvalRequestId = id
    /\ requiresHumanApproval(req[p].action, EffectiveRules(req[p]))

\* Request p consumed approval id: it found it and marked it consumed.
Consumed(p, id) ==
    /\ PastGate(p)
    /\ loc[p].approvedRequest = id
    /\ "human_approval_consumed" \in loc[p].signals

BlockedForApproval(p) ==
    loc[p].decision = "BLOCK" /\ loc[p].reason = "approval_required"

\* C1: of two requests of one workspace and agent that carry the id of the
\* same Approved, unconsumed, unexpired approval request, at most one
\* consumes it and ends with ALLOW; the other one is BLOCK
\* approval_required, in every interleaving of their find and update steps.
C1_SingleConsumer ==
    \A p \in Requests : \A q \in Requests \ {p} : \A id \in ApprovalIds :
        (Consumed(p, id) /\ BearsApproval(q, id) /\ PastGate(q)
            /\ req[p].agent = req[q].agent)
        => (BlockedForApproval(q) /\ ~Consumed(q, id))

C2_AtMostOneConsumer ==
    \A id \in 1..Len(approvals) :
        /\ Cardinality({p \in Requests : Consumed(p, id)}) <= 1
        /\ approvals[id].consumedAt # NoDate =>
              \A p \in Requests :
                  (BearsApproval(p, id) /\ PastGate(p) /\ ~Consumed(p, id))
                  => BlockedForApproval(p)

C2_NoRewrite ==
    \A id \in 1..Len(approvals) :
        approvals[id].consumedAt # NoDate
        => approvals'[id].consumedAt = approvals[id].consumedAt

\* C2: over non-overlapping requests an Approved approval request is
\* consumed at most once: once its consumedAt is set, every other request
\* bearing its id for an action requiring approval is BLOCK
\* approval_required, and no step rewrites consumedAt.
C2_ConsumedAtMostOnce == []C2_AtMostOneConsumer /\ [][C2_NoRewrite]_vars

\* Witness C2: approval 1 was consumed by one request and a later request
\* bearing the same id finished blocked with approval_required.
C2_Witness ==
    \E p \in Requests : \E q \in Requests \ {p} :
        /\ pc[p] = "done" /\ pc[q] = "done"
        /\ Consumed(p, 1) /\ loc[p].decision = "ALLOW"
        /\ approvals[1].consumedAt # NoDate
        /\ BearsApproval(q, 1) /\ req[q].agent = req[p].agent
        /\ loc[q].findAt >= approvals[1].consumedAt
        /\ BlockedForApproval(q)

\* C3: a request whose lookup runs when the approval it bears has expiresAt
\* not later than the lookup time never consumes it and is BLOCK
\* approval_required; an approval is marked consumed only by a request whose
\* lookup ran before expiresAt, so consumedAt of an approval that was expired
\* at every attempt stays null, whatever its stored status.
C3_ExpiredNeverConsumed ==
    /\ \A p \in Requests : \A id \in 1..Len(approvals) :
          (BearsApproval(p, id) /\ loc[p].findAt # NoDate
              /\ approvals[id].expiresAt <= loc[p].findAt)
          => /\ loc[p].approvedRequest = NoId
             /\ "human_approval_consumed" \notin loc[p].signals
             /\ PastGate(p) => BlockedForApproval(p)
    /\ \A id \in 1..Len(approvals) :
          approvals[id].consumedAt # NoDate
          => \E p \in Requests :
                 /\ loc[p].approvedRequest = id
                 /\ loc[p].findAt < approvals[id].expiresAt

\* Witness C3: approval 1 is stored as APPROVED, was expired when the
\* request bearing it looked it up, the request finished blocked with
\* approval_required, and consumedAt is still null.
C3_Witness ==
    \E p \in Requests :
        /\ pc[p] = "done"
        /\ BearsApproval(p, 1)
        /\ req[p].agent.id = approvals[1].agentId
        /\ approvals[1].status = "APPROVED"
        /\ approvals[1].expiresAt <= loc[p].findAt
        /\ approvals[1].consumedAt = NoDate
        /\ BlockedForApproval(p)

\* Request p asked for an action that its rule set sends through the gate.
NeedsApproval(p) ==
    /\ pc[p] # "idle"
    /\ requiresHumanApproval(req[p].action, EffectiveRules(req[p]))

\* The audit event request p appended, as a set (empty before the append).
EventOf(p) == {events[i] : i \in {j \in 1..Len(events) : events[j].id = loc[p].eventId}}

\* C13: a request for an action requiring approval ends ALLOW only if it
\* consumed an approval request of its workspace and agent, Approved and
\* unexpired at its lookup, and what it marks consumed is still Approved and
\* unconsumed when it marks it; every ALLOW audit event of such a request
\* carries human_approval_consumed.
C13_AllowNeedsOwnConsumption ==
    \A p \in Requests :
        /\ (pc[p] = "gate_update") =>
              LET row == approvals[loc[p].approvedRequest]
              IN  /\ row.workspaceId = req[p].agent.workspaceId
                  /\ row.agentId = req[p].agent.id
                  /\ row.status = "APPROVED"
                  /\ row.expiresAt > loc[p].findAt
                  /\ row.consumedAt = NoDate
        /\ (PastGate(p) /\ NeedsApproval(p) /\ loc[p].decision = "ALLOW") =>
              /\ \E id \in 1..Len(approvals) : Consumed(p, id)
              /\ \A e \in EventOf(p) :
                    e.decision = "ALLOW"
                    /\ "human_approval_consumed" \in e.metadata.signals

\* The approval a request names can be consumed by it now.
C25_Usable(p) ==
    LET id == req[p].approvalRequestId
    IN  /\ id \in 1..Len(approvals)
        /\ approvals[id].workspaceId = req[p].agent.workspaceId
        /\ approvals[id].agentId = req[p].agent.id
        /\ approvals[id].status = "APPROVED"
        /\ approvals[id].consumedAt = NoDate
        /\ now < approvals[id].expiresAt

\* A lookup that finds nothing usable goes on to the creation and changes
\* no approval; the creation adds one row, Pending, unconsumed, expiring 15
\* minutes later, leaves the other rows as they are and blocks the request.
C25_GateStep ==
    \A p \in Requests :
        /\ (pc[p] = "gate_find" /\ pc'[p] # "gate_find" /\ ~C25_Usable(p))
              => (pc'[p] = "gate_create" /\ approvals' = approvals)
        /\ (pc[p] = "gate_create" /\ pc'[p] # "gate_create")
              => /\ Len(approvals') = Len(approvals) + 1
                 /\ SubSeq(approvals', 1, Len(approvals)) = approvals
                 /\ LET row == approvals'[Len(approvals')]
                    IN  /\ row.status = "PENDING"
                        /\ row.consumedAt = NoDate
                        /\ row.expiresAt = now + 15
                        /\ row.workspaceId = req[p].agent.workspaceId
                        /\ row.agentId = req[p].agent.id
                 /\ loc'[p].approvalId = Len(approvals')
                 /\ loc'[p].decision = "BLOCK"
                 /\ loc'[p].reason = "approval_required"
                 /\ "human_approval_required" \in loc'[p].signals

\* A request whose action needs an approval and that consumed none is at
\* the gate or blocked with approval_required, and its event and result
\* carry the id of the request it opened.
C25_GateEnd ==
    \A p \in Requests :
        (NeedsApproval(p) /\ PastGate(p) /\ loc[p].startedAt # NoDate
            /\ BaseDecision(req[p], loc[p].burstRate).decision = "ALLOW"
            /\ "human_approval_consumed" \notin loc[p].signals)
        => /\ BlockedForApproval(p)
           /\ "human_approval_required" \in loc[p].signals
           /\ loc[p].approvalId \in 1..Len(approvals)
           /\ loc[p].approvalId # req[p].approvalRequestId
           /\ \A e \in EventOf(p) :
                 /\ e.decision = "BLOCK" /\ e.reason = "approval_required"
                 /\ e.metadata.approval_request_id = loc[p].approvalId

\* C25: a candidate ALLOW that requires approval and consumes none ends
\* BLOCK approval_required with human_approval_required, creates exactly one
\* new approval request (Pending, consumedAt null, expiresAt = creation time
\* + 15 minutes) whose id it returns, and leaves the approval it named
\* unchanged.
C25_NoApprovalBlocks == [][C25_GateStep]_vars /\ []C25_GateEnd

\* Witness C25: a request that named approval 1, which had been rejected,
\* finished blocked and returned the id of the Pending request 2 it opened;
\* approval 1 is still Rejected and unconsumed.
C25_Witness ==
    \E p \in Requests :
        /\ pc[p] = "done"
        /\ req[p].approvalRequestId = 1
        /\ approvals[1].status = "REJECTED"
        /\ approvals[1].consumedAt = NoDate
        /\ BlockedForApproval(p)
        /\ loc[p].approvalId = 2
        /\ approvals[2].status = "PENDING"

\* The baseline key of a call.
KeyOf(p) == <<req[p].agent.id, req[p].tool, req[p].action>>

\* The evaluations of key k that have completed: one audit event each, the
\* event of a call that has not written the baseline yet left out.
Completed(k) ==
    Cardinality({ i \in 1..Len(events) :
                    /\ <<events[i].agentId, events[i].tool, events[i].action>> = k
                    /\ ~\E p \in Requests :
                          pc[p] = "baseline" /\ loc[p].eventId = events[i].id })

\* avg, in hundredths, is the mean total / n: exactly, or to the nearest
\* hundredth.
C26_IsMean(avg, total, n, exact) ==
    IF exact THEN avg * n = total
    ELSE /\ 2 * (avg * n - total) <= n
         /\ 2 * (total - avg * n) <= n

\* A baseline row changes only by the upsert of a call of its key: created
\* with sampleCount 1 and the observation, or sampleCount raised by one and
\* both averages set to the incremental mean; no row goes away.
C26_Step(exact) ==
    \A k \in BaselineKeys :
        /\ baselines[k].exists => baselines'[k].exists
        /\ baselines'[k] # baselines[k] =>
              \E p \in Requests :
                  /\ pc[p] = "baseline" /\ KeyOf(p) = k
                  /\ LET old == baselines[k]
                         new == baselines'[k]
                     IN  IF ~old.exists
                         THEN /\ new.sampleCount = 1
                              /\ new.avgRiskScore = 100 * loc[p].riskScore
                              /\ new.avgPerMinute = 100 * loc[p].burstRate
                         ELSE /\ new.sampleCount = old.sampleCount + 1
                              /\ C26_IsMean(new.avgRiskScore,
                                            old.avgRiskScore * old.sampleCount
                                              + 100 * loc[p].riskScore,
                                            new.sampleCount, exact)
                              /\ C26_IsMean(new.avgPerMinute,
                                            old.avgPerMinute * old.sampleCount
                                              + 100 * loc[p].burstRate,
                                            new.sampleCount, exact)

C26_CountIsEvaluations ==
    \A k \in BaselineKeys :
        /\ baselines[k].sampleCount = Completed(k)
        /\ baselines[k].exists = (Completed(k) > 0)

\* C26 as stated: over non-overlapping evaluations of a key the baseline is
\* created with sampleCount 1, every later evaluation raises sampleCount by
\* one and sets both averages to the incremental mean, sampleCount equals
\* the number of completed evaluations and the row is never deleted.
C26_IncrementalMean == [][C26_Step(TRUE)]_vars /\ []C26_CountIsEvaluations

\* C26 amended: the same, both averages being set to the incremental mean
\* rounded to two decimals.
C26_IncrementalMeanRounded == [][C26_Step(FALSE)]_vars /\ []C26_CountIsEvaluations

\* Witness C26: the third evaluation of (a1, crm, delete), the only one that
\* came within a minute of another call, left the rate 1/3 stored as 0.33.
C26_Witness ==
    /\ baselines[<<"a1", "crm", "delete">>].sampleCount = 3
    /\ baselines[<<"a1", "crm", "delete">>].avgPerMinute = 33
    /\ Completed(<<"a1", "crm", "delete">>) = 3

\* The evaluations of the key of call p that came before it.
EarlierEvaluations(p) ==
    Cardinality({ i \in 1..Len(events) :
                    /\ <<events[i].agentId, events[i].tool, events[i].action>> = KeyOf(p)
                    /\ events[i].id # loc[p].eventId })

\* C29: in a sequence of non-overlapping evaluations of one key a request
\* carries new_action_pattern, in its signals and in its audit event, and
\* is scored with isNewPattern, exactly when fewer than three evaluations of
\* the key came before it, whatever its decision.
C29_FirstThreeAreNew ==
    \A p \in Requests :
        pc[p] # "idle" =>
            /\ ("new_action_pattern" \in loc[p].signals) = (EarlierEvaluations(p) < 3)
            /\ \A e \in EventOf(p) :
                  ("new_action_pattern" \in e.metadata.signals)
                      = (EarlierEvaluations(p) < 3)
            /\ pc[p] \in {"append_write", "baseline"} =>
                  loc[p].riskScore
                    = computeRiskScore(loc[p].signals, req[p].action, loc[p].decision,
                          [ baselineAvgRiskScore |-> loc[p].baseline.avgRiskScore,
                            baselineAvgPerMinute |-> loc[p].baseline.avgPerMinute,
                            burstRate |-> loc[p].burstRate,
                            isOffHours |-> req[p].isOffHours,
                            isNewPattern |-> EarlierEvaluations(p) < 3 ])

\* Witness C29: the fourth evaluation of (a1, crm, read), refused because
\* the key was revoked, was logged without new_action_pattern after three
\* that carried it.
C29_Witness ==
    \E p \in Requests :
        /\ pc[p] = "done"
        /\ req[p].action = "read"
        /\ req[p].forceBlockReason = "key_revoked"
        /\ EarlierEvaluations(p) = 3
        /\ \A e \in EventOf(p) : "new_action_pattern" \notin e.metadata.signals
        /\ \A i \in 1..Len(events) :
              (events[i].action = "read" /\ events[i].id # loc[p].eventId)
              => "new_action_pattern" \in events[i].metadata.signals

\* C14: an approval request is resolved once: approve and reject change
\* the status only of a Pending row, so a status that is Approved or
\* Rejected never changes again, also when an approve and a reject of the
\* same row run concurrently.
C14_ResolvedOnce ==
    [][\A id \in 1..Len(approvals) :
          approvals[id].status # "PENDING"
          => approvals'[id].status = approvals[id].status]_vars

\* Audit events of agent a, by position.
EventsOfAgent(a) == {i \in 1..Len(events) : events[i].agentId = a}

\* The observed call has added exactly one event to those of its agent
\* (the agent of the first request had one before).
AppendedOnce(p) ==
    /\ Cardinality(EventOf(p)) = 1
    /\ Cardinality(EventsOfAgent(req[p].agent.id))
         = (IF req[p].agent.id = FirstInput.agent.id THEN 1 ELSE 0) + 1

\* Call p is past appendAuditEvent.
PastAppend(p) == pc[p] \in {"baseline", "playbooks", "webhook", "done"}

\* C15: a call never goes past the append, and so never returns a result,
\* without its audit event being stored; a call whose append failed has
\* rejected with no event, its baseline row is the one it read at the start,
\* no playbook was read or run for it and no dispatch was started.
C15_NoDecisionWithoutEvent ==
    \A p \in Requests :
        /\ PastAppend(p) => AppendedOnce(p)
        /\ pc[p] = "failed" =>
              /\ loc[p].eventId = NoId
              /\ EventOf(p) = {}
              /\ baselines[<<req[p].agent.id, req[p].tool, req[p].action>>]
                   = loc[p].baseline
              /\ pb[p] = NoRun
              /\ siem[p] = "none"

\* Witness C15: a call rejected at the append in a workspace that has an
\* enabled playbook and an active integration.
C15_Witness ==
    \E p \in Requests :
        /\ pc[p] = "failed"
        /\ EnabledPlaybooks(req[p].agent.workspaceId) # << >>
        /\ integrations[req[p].agent.workspaceId]
        /\ chainState[req[p].agent.workspaceId].exists

\* The signals only evaluatePolicy pushes.
PolicySignals == {"high_risk_action", "unknown_tool", "burst_rate"}

ShortCircuit(r) == r.forceBlockReason # NULL \/ r.agent.status = "DISABLED"

\* C16: a forced-block reason gives BLOCK with that reason, also for a
\* Disabled agent; without one a Disabled agent gives BLOCK agent_disabled;
\* in both cases the policy is not evaluated (no policy signal, no approval
\* request) and the call, once returned, has logged exactly one event with
\* that decision and reason; only otherwise is the policy consulted.
C16_ShortCircuitPrecedence ==
    \A p \in Requests : pc[p] # "idle" =>
        LET r == req[p]
            l == loc[p]
        IN  /\ r.forceBlockReason # NULL =>
                  l.decision = "BLOCK" /\ l.reason = r.forceBlockReason
            /\ (r.forceBlockReason = NULL /\ r.agent.status = "DISABLED") =>
                  l.decision = "BLOCK" /\ l.reason = "agent_disabled"
            /\ ShortCircuit(r) =>
                  /\ l.signals \cap PolicySignals = {}
                  /\ l.approvalId = NoId /\ l.approvedRequest = NoId
                  /\ pc[p] \notin {"gate_find", "gate_update", "gate_create"}
                  /\ pc[p] = "done" =>
                        /\ AppendedOnce(p)
                        /\ \A e \in EventOf(p) :
                              e.decision = "BLOCK" /\ e.reason = l.reason
            /\ (~ShortCircuit(r) /\ l.reason # "policy_not_approved"
                  /\ toLowerCase(r.action) \in HIGH_RISK_ACTIONS) =>
                  "high_risk_action" \in l.signals

\* Witness C16: a returned call of a Disabled agent with forced-block
\* reason key_revoked, logged as BLOCK key_revoked.
C16_Witness ==
    \E p \in Requests :
        /\ pc[p] = "done"
        /\ req[p].agent.status = "DISABLED"
        /\ req[p].forceBlockReason = "key_revoked"
        /\ \E e \in EventOf(p) : e.reason = "key_revoked"

\* Call p is of an active agent with an assigned policy and no forced block.
PolicyBound(r) ==
    /\ r.forceBlockReason = NULL
    /\ r.agent.status = "ACTIVE"
    /\ r.agent.activePolicyId # NULL

C17_StartChecksStatus ==
    \A p \in Requests :
        (pc[p] = "idle" /\ pc'[p] # "idle" /\ PolicyBound(req'[p])
            /\ policies[req'[p].agent.activePolicyId].status # "APPROVED")
        => (loc'[p].decision = "BLOCK" /\ loc'[p].reason = "policy_not_approved")

C17_BlockStays ==
    \A p \in Requests :
        (pc[p] # "idle" /\ loc[p].reason = "policy_not_approved") =>
            /\ loc[p].decision = "BLOCK"
            /\ \A e \in EventOf(p) :
                  e.decision = "BLOCK" /\ e.reason = "policy_not_approved"

\* C17: a call of an active agent with an assigned policy and no forced
\* block that reads the policy with a status other than APPROVED is BLOCK
\* policy_not_approved, stays so and is logged so: it can end ALLOW only if
\* the status was APPROVED when it read it, also after the policy was
\* edited back to DRAFT.
C17_UnapprovedPolicyBlocks == [][C17_StartChecksStatus]_vars /\ []C17_BlockStays

\* Witness C17: the policy of agent a1 was edited back to DRAFT and a call
\* of a1 returned BLOCK policy_not_approved.
C17_Witness ==
    \E p \in Requests :
        /\ pc[p] = "done"
        /\ PolicyBound(req[p])
        /\ policies[req[p].agent.activePolicyId].status = "DRAFT"
        /\ loc[p].decision = "BLOCK"
        /\ loc[p].reason = "policy_not_approved"

\* C18: a call that returned has appended exactly one audit event; the
\* decision, reason, signals, riskScore and approvalRequestId it returns
\* are those stored on the event and in its metadata, and the event's
\* anomalyFlagged is true exactly when its signal set is not empty.
C18_ResultMatchesEvent ==
    \A p \in Requests : pc[p] = "done" =>
        /\ AppendedOnce(p)
        /\ \A e \in EventOf(p) :
              /\ e.workspaceId = req[p].agent.workspaceId
              /\ e.decision = loc[p].decision
              /\ e.reason = loc[p].reason
              /\ e.metadata.signals = loc[p].signals
              /\ e.metadata.risk_score = loc[p].riskScore
              /\ e.metadata.approval_request_id = loc[p].approvalId
              /\ e.anomalyFlagged <=> (e.metadata.signals # {})

\* Witness C18: a returned call that opened an approval request, whose id
\* is in the result and in the event's metadata.
C18_Witness ==
    \E p \in Requests :
        /\ pc[p] = "done"
        /\ loc[p].approvalId # NoId
        /\ \E e \in EventOf(p) :
              /\ e.metadata.approval_request_id = loc[p].approvalId
              /\ e.anomalyFlagged

\* The playbook_executions rows of playbook k for the event of call p.
ExecutionsFor(p, k) ==
    {i \in 1..Len(executions) :
        executions[i].playbookId = k /\ executions[i].eventId = loc[p].eventId}

\* C19: for the event of a returned call every enabled playbook (still
\* stored) has exactly one execution row with status SKIPPED, EXECUTED or
\* FAILED, the rows follow the creation order, and nothing that goes wrong
\* in a playbook stops the loop or the call: a call rejects only when its
\* append failed.
C19_OneExecutionPerPlaybook ==
    \A p \in Requests :
        /\ pc[p] = "done" =>
              /\ \A j \in 1..Len(pb[p].list) :
                    playbooks[pb[p].list[j]].exists =>
                        Cardinality(ExecutionsFor(p, pb[p].list[j])) = 1
              /\ \A i \in 1..Len(executions) : \A j \in 1..Len(executions) :
                    (i < j /\ executions[i].eventId = loc[p].eventId
                           /\ executions[j].eventId = loc[p].eventId)
                    => executions[i].playbookId < executions[j].playbookId
        /\ pc[p] = "failed" => loc[p].eventId = NoId

\* The three conditions of C30 for a playbook row and a stored event; with
\* nonEmptyOnly only the non-empty entries of matchSignals are required.
C30_Conditions(row, e, nonEmptyOnly) ==
    LET required == IF nonEmptyOnly THEN row.matchSignals \ {""} ELSE row.matchSignals
    IN  /\ row.triggerDecision = NULL \/ row.triggerDecision = e.decision
        /\ e.metadata.risk_score >= row.minRiskScore
        /\ \A signal \in required : signal \in e.metadata.signals

\* Every playbook the loop has passed has one execution row for the event,
\* SKIPPED when a condition is false; the loop waits on a webhook only for
\* a playbook whose conditions hold; a returned call has passed them all.
C30_Loop(nonEmptyOnly) ==
    \A p \in Requests : \A e \in EventOf(p) :
        pc[p] \in {"playbooks", "webhook", "done"} =>
            /\ \A j \in 1..Len(pb[p].list) :
                  LET k == pb[p].list[j]
                      rows == {executions[i] : i \in ExecutionsFor(p, k)}
                  IN  IF j < pb[p].i
                      THEN /\ Cardinality(ExecutionsFor(p, k)) = 1
                           /\ ~C30_Conditions(playbooks[k], e, nonEmptyOnly)
                                => \A x \in rows : x.status = "SKIPPED"
                      ELSE rows = {}
            /\ pc[p] = "webhook" =>
                  C30_Conditions(playbooks[pb[p].list[pb[p].i]], e, nonEmptyOnly)
            /\ pc[p] = "done" => pb[p].i = Len(pb[p].list) + 1

\* C30 as stated: a playbook fires only when triggerDecision is unset or
\* equals the event's decision, riskScore >= minRiskScore and matchSignals
\* is empty or every one of its entries is among the event's signals;
\* otherwise it is recorded SKIPPED with no side effect and the loop goes on.
C30_FiresOnlyWhenAllMatch == C30_Loop(FALSE)

\* C30 amended: the same, the third condition being that every non-empty
\* entry of matchSignals is among the event's signals.
C30_FiresOnlyWhenAllMatchNonEmpty == C30_Loop(TRUE)

\* Witness C30: the oldest playbook asks for two signals of which the event
\* has one; it was recorded SKIPPED and the next playbook ran.
C30_Witness ==
    \E p \in Requests : \E e \in EventOf(p) :
        /\ pc[p] = "done"
        /\ playbooks[1].matchSignals = {"high_risk_action", "burst_rate"}
        /\ playbooks[1].triggerDecision = NULL
        /\ playbooks[1].minRiskScore = 0
        /\ "high_risk_action" \in e.metadata.signals
        /\ \E i \in ExecutionsFor(p, 1) : executions[i].status = "SKIPPED"
        /\ \E i \in ExecutionsFor(p, 2) : executions[i].status = "EXECUTED"

\* C27: a failure of the baseline update is not fatal: a call whose audit
\* event is appended goes on, whatever becomes of the baseline write, to
\* read and run the playbooks and to return its result.
C27_BaselineFailureNonFatal ==
    [][\A p \in Requests :
          pc[p] = "baseline" =>
              /\ pc'[p] \in {"baseline", "playbooks", "done"}
              /\ pc'[p] # "baseline" => pb'[p].list = EnabledPlaybooks(req[p].agent.workspaceId)]_vars

\* C20: webhook endpoints never hold a call back: a call whose event is
\* stored and that has not yet returned can always take its next step by
\* itself, whether or not an endpoint has answered, so it returns its
\* result without waiting for any webhook.
C20_CallerNeverWaits ==
    \A p \in Requests :
        (PastAppend(p) /\ pc[p] # "done")
        => ENABLED (BaselineUpsert(p) \/ PlaybookStep(p))

----------------------------------------------------------------------------
(* Inputs of the policy-engine specification                               *)

PolActions == {"read", "READ", "delete", "DELETE"}
PolTools == {"kb", "crm"}
PolCtxTools == {"kb", "crm", "unknown"}
PolBurstRates == {0, 4, 5}

\* Rule sets as stored in Policy.rules: complete ones, and partial ones the
\* schema completes with defaults.
RawRuleSets ==
    [ mode : {"STRICT", "BALANCED"},
      allow_actions : SUBSET {"read", "delete"},
      deny_actions : SUBSET {"read", "delete"},
      allow_tools : SUBSET PolTools,
      deny_tools : SUBSET PolTools,
      require_approval_actions : SUBSET {"read"} ]
    \cup [ allow_tools : SUBSET PolTools, deny_actions : SUBSET {"read", "delete"} ]

PolContexts == [ tool : PolCtxTools, action : PolActions, burstRate : PolBurstRates ]

InitPolicy ==
    /\ polRules \in RawRuleSets
    /\ polCtx \in PolContexts
    /\ polResult = NoResult
    /\ AuxIdle
    /\ RiskIdle
    /\ HashIdle
    /\ LedgerEmpty
    /\ ForensicsIdle
    /\ GateIdle

\* One call evaluatePolicy(polRules, polCtx).
EvaluatePolicy ==
    /\ polResult = NoResult
    /\ polResult' = evaluatePolicy(polRules, polCtx)
    /\ UNCHANGED <<polRules, polCtx, auxVars, riskVars, hashVars, now, ledgerVars, forensicVars,
                   gateVars>>

\* One call requiresHumanApproval(action, rules) on the normalized rules, as
\* evaluateAndLogAction makes it.
RequiresApproval ==
    /\ polApproval = {}
    /\ polApproval' = {requiresHumanApproval(polCtx.action,
                                               normalizePolicyRules(polRules, NULL))}
    /\ UNCHANGED <<polRules, polCtx, polResult, polBalanced, sigIn, sigOut, riskVars,
                   hashVars, now, ledgerVars, forensicVars, gateVars>>

\* A second call of evaluatePolicy, on the same rule set in BALANCED mode.
EvaluateBalanced ==
    /\ polBalanced = NoResult
    /\ polBalanced' =
          evaluatePolicy([normalizePolicyRules(polRules, NULL) EXCEPT !.mode = "BALANCED"],
                         polCtx)
    /\ UNCHANGED <<polRules, polCtx, polResult, polApproval, sigIn, sigOut, riskVars,
                   hashVars, now, ledgerVars, forensicVars, gateVars>>

NextPolicy ==
    \/ EvaluatePolicy
    \/ RequiresApproval
    \/ EvaluateBalanced

SpecPolicy == InitPolicy /\ [][NextPolicy]_vars

\* The normalized rule set evaluatePolicy worked on.
PolNorm == normalizePolicyRules(polRules, NULL)
PolEvaluated == polResult.decision # "NONE"

\* C8: whenever the action is a member of deny_actions, evaluatePolicy
\* returns BLOCK with reason action_denied_by_policy, whatever the mode is
\* and whether or not the action is also in allow_actions.
C8_DenyPrecedence ==
    (PolEvaluated /\ polCtx.action \in PolNorm.deny_actions)
        => (polResult.decision = "BLOCK" /\ polResult.reason = "action_denied_by_policy")

\* Witness C8: a STRICT rule set that both allows and denies the action was evaluated.
C8_Witness ==
    /\ PolEvaluated
    /\ PolNorm.mode = "STRICT"
    /\ polCtx.action \in PolNorm.deny_actions
    /\ polCtx.action \in PolNorm.allow_actions
    /\ polResult.reason = "action_denied_by_policy"

\* The reason the fixed clause order prescribes.
C9_ExpectedReason ==
    IF polCtx.action \in PolNorm.deny_actions THEN "action_denied_by_policy"
    ELSE IF polCtx.tool \in PolNorm.deny_tools THEN "tool_denied_by_policy"
    ELSE IF PolNorm.mode = "STRICT" /\ PolNorm.allow_actions # {}
            /\ polCtx.action \notin PolNorm.allow_actions
    THEN "action_not_allowlisted_strict"
    ELSE IF PolNorm.mode = "STRICT" /\ PolNorm.allow_tools # {}
            /\ polCtx.tool \notin PolNorm.allow_tools
    THEN "tool_not_allowlisted_strict"
    ELSE "allowed_by_policy_engine"

\* C9: evaluatePolicy returns the reason of the first clause that applies in
\* the order deny_actions, deny_tools, STRICT action allowlist, STRICT tool
\* allowlist, otherwise ALLOW; the decision is ALLOW only in the last case.
C9_ClauseOrder ==
    PolEvaluated =>
        /\ polResult.reason = C9_ExpectedReason
        /\ (polResult.decision = "ALLOW") = (C9_ExpectedReason = "allowed_by_policy_engine")
        /\ polResult.decision \in {"ALLOW", "BLOCK"}

\* Witness C9: a request failing both STRICT allowlists is reported as
\* action_not_allowlisted_strict.
C9_Witness ==
    /\ PolEvaluated
    /\ PolNorm.mode = "STRICT"
    /\ polCtx.action \notin PolNorm.deny_actions
    /\ polCtx.tool \notin PolNorm.deny_tools
    /\ PolNorm.allow_actions # {} /\ polCtx.action \notin PolNorm.allow_actions
    /\ PolNorm.allow_tools # {} /\ polCtx.tool \notin PolNorm.allow_tools
    /\ polResult.reason = "action_not_allowlisted_strict"

\* C10: in BALANCED mode the decision is BLOCK exactly when the action is in
\* deny_actions or the tool is in deny_tools, and a tool outside a non-empty
\* allow_tools yields the unknown_tool signal (and ALLOW unless denied).
C10_BalancedNeverAllowlistBlocks ==
    (PolEvaluated /\ PolNorm.mode = "BALANCED") =>
        /\ (polResult.decision = "BLOCK")
             = (polCtx.action \in PolNorm.deny_actions \/ polCtx.tool \in PolNorm.deny_tools)
        /\ polResult.reason \notin
             {"action_not_allowlisted_strict", "tool_not_allowlisted_strict"}
        /\ (PolNorm.allow_tools # {} /\ polCtx.tool \notin PolNorm.allow_tools)
             => "unknown_tool" \in polResult.signals

\* Witness C10: BALANCED, tool outside the non-empty allow_tools, allowed and flagged.
C10_Witness ==
    /\ PolEvaluated
    /\ PolNorm.mode = "BALANCED"
    /\ PolNorm.allow_tools # {} /\ polCtx.tool \notin PolNorm.allow_tools
    /\ PolNorm.allow_actions # {} /\ polCtx.action \notin PolNorm.allow_actions
    /\ polResult.decision = "ALLOW"
    /\ "unknown_tool" \in polResult.signals

\* The action spelled in lower case, whatever the case it came in.
LowerCased(action) ==
    CHOOSE l \in {"read", "delete", "drop"} : toLowerCase(action) = l

\* C22: under STRICT with allow_actions empty no request is blocked as
\* action_not_allowlisted_strict, with allow_tools empty none is blocked as
\* tool_not_allowlisted_strict, and with both empty the decision and reason
\* are those of the same rule set in BALANCED mode.
C22_EmptyAllowlistNoRestriction ==
    (PolEvaluated /\ PolNorm.mode = "STRICT") =>
        /\ PolNorm.allow_actions = {}
             => polResult.reason # "action_not_allowlisted_strict"
        /\ PolNorm.allow_tools = {}
             => polResult.reason # "tool_not_allowlisted_strict"
        /\ (PolNorm.allow_actions = {} /\ PolNorm.allow_tools = {}
               /\ polBalanced # NoResult)
             => /\ polResult.decision = polBalanced.decision
                /\ polResult.reason = polBalanced.reason

\* Witness C22: a STRICT rule set with deny lists and no allowlist allowed a
\* request, as its BALANCED twin did.
C22_Witness ==
    /\ PolEvaluated
    /\ PolNorm.mode = "STRICT"
    /\ PolNorm.allow_actions = {} /\ PolNorm.allow_tools = {}
    /\ PolNorm.deny_actions # {} /\ PolNorm.deny_tools # {}
    /\ polResult.decision = "ALLOW"
    /\ polBalanced.decision = "ALLOW"

\* The signals C23 prescribes, given what "in the high-risk vocabulary" is
\* taken to mean.
C23_Expected(highRisk) ==
    (IF highRisk THEN {"high_risk_action"} ELSE {})
    \cup (IF PolNorm.allow_tools # {} /\ polCtx.tool \notin PolNorm.allow_tools
          THEN {"unknown_tool"} ELSE {})
    \cup (IF polCtx.burstRate >= 5 THEN {"burst_rate"} ELSE {})

\* C23 as stated: whatever the decision, the result contains
\* high_risk_action iff the action is one of the six names of the
\* vocabulary, unknown_tool iff allow_tools is non-empty and lacks the tool,
\* burst_rate iff burstRate >= 5, and nothing else.
C23_SignalsIndependent ==
    PolEvaluated => polResult.signals = C23_Expected(polCtx.action \in HIGH_RISK_ACTIONS)

\* C23 amended: the same, with high_risk_action iff the action, put in
\* lower case, is in the vocabulary.
C23_SignalsIndependentFolded ==
    PolEvaluated =>
        polResult.signals = C23_Expected(LowerCased(polCtx.action) \in HIGH_RISK_ACTIONS)

\* Witness C23: a request blocked by the STRICT tool allowlist carries all
\* three signals; its action came in upper case.
C23_Witness ==
    /\ polResult.reason = "tool_not_allowlisted_strict"
    /\ polCtx.action = "DELETE"
    /\ polResult.signals = {"high_risk_action", "unknown_tool", "burst_rate"}

\* C21 as stated: requiresHumanApproval returns true exactly when the action
\* is one of the six names of the high-risk vocabulary or a member of
\* rules.require_approval_actions, and false for every other action.
C21_ExactlyVocabularyOrListed ==
    polApproval # {} =>
        polApproval = { \/ polCtx.action \in HIGH_RISK_ACTIONS
                        \/ polCtx.action \in PolNorm.require_approval_actions }

\* C21 amended: requiresHumanApproval returns true exactly when the action,
\* put in lower case, is in the high-risk vocabulary or the action as given
\* is a member of rules.require_approval_actions.
C21_FoldedVocabularyOrListed ==
    polApproval # {} =>
        (TRUE \in polApproval) =
            ( \/ LowerCased(polCtx.action) \in HIGH_RISK_ACTIONS
              \/ polCtx.action \in PolNorm.require_approval_actions )

\* Witness C21: DELETE needs an approval although only read is listed.
C21_Witness ==
    /\ polApproval = {TRUE}
    /\ polCtx.action = "DELETE"
    /\ PolNorm.require_approval_actions = {"read"}

----------------------------------------------------------------------------
(* Playbook responses                                                      *)

\* Playbooks of workspace w1 that respond to events, created in id order,
\* in turn: disable the agent on every BLOCK, revoke its keys on every
\* BLOCK, open an approval request on every ALLOW, and a webhook
\* notification without url.
ResponseRow(k) ==
    [ exists |-> TRUE,
      workspaceId |-> "w1",
      enabled |-> TRUE,
      triggerDecision |-> IF k % 4 \in {1, 2} THEN "BLOCK"
                          ELSE IF k % 4 = 3 THEN "ALLOW" ELSE NULL,
      minRiskScore |-> 0,
      matchSignals |-> {},
      actionType |-> IF k % 4 = 1 THEN "DISABLE_AGENT"
                     ELSE IF k % 4 = 2 THEN "REVOKE_ACTIVE_KEYS"
                     ELSE IF k % 4 = 3 THEN "CREATE_APPROVAL" ELSE "NOTIFY_WEBHOOK",
      url |-> "" ]

\* Agent a1 reads or deletes, with its active or its revoked key or from
\* the simulator.
RespondInputs ==
    [ agent : {Agent1, [Agent1 EXCEPT !.status = "DISABLED"]}, tool : ReqTools,
      action : {"read", "delete"}, forceBlockReason : {NULL, "key_revoked"},
      approvalRequestId : {NoId}, isOffHours : {FALSE} ]

\* As Init, with the response playbooks.
InitRespond ==
    /\ WarmStart
    /\ DirectoryActive
    /\ playbooks = [k \in PlaybookIds |-> ResponseRow(k)]
    /\ executions = << >>
    /\ integrations = [w \in Workspaces |-> FALSE]
    /\ pb = [p \in Requests |-> NoRun]
    /\ siem = [p \in Requests |-> "none"]

\* Two calls, which may overlap.
RespondCalls == {1, 2}

NextRespond ==
    \/ Tick
    \/ \E p \in RespondCalls, input \in RespondInputs : RequestStart(p, input)
    \/ \E p \in RespondCalls : GateCreate(p)
    \/ \E p \in RespondCalls : RequestAppendRead(p)
    \/ \E p \in RespondCalls : RequestAppendCommit(p)
    \/ \E p \in RespondCalls : BaselineUpsert(p)
    \/ \E p \in RespondCalls : PlaybookStep(p)

SpecRespond == InitRespond /\ [][NextRespond]_vars

\* The execution rows written by the calls observed.
OwnExecutions ==
    {i \in 1..Len(executions) :
        \E p \in Requests : loc[p].eventId # NoId /\ executions[i].eventId = loc[p].eventId}

\* C31: a matched playbook whose action cannot be carried out (a
\* NOTIFY_WEBHOOK playbook with no url in actionConfig) is recorded FAILED,
\* never EXECUTED.
C31_UnperformableIsFailed ==
    \A i \in OwnExecutions :
        LET row == playbooks[executions[i].playbookId]
        IN  ( /\ row.exists
              /\ row.actionType = "NOTIFY_WEBHOOK"
              /\ row.url = ""
              /\ executions[i].status # "SKIPPED" )
            => executions[i].status = "FAILED"

\* The playbook runs recorded EXECUTED for an event of agent a by a playbook
\* of the given action type, as positions in executions.
RunsOf(a, actionType) ==
    {i \in 1..Len(executions) :
        /\ executions[i].status = "EXECUTED"
        /\ playbooks[executions[i].playbookId].actionType = actionType
        /\ \E j \in 1..Len(events) :
              events[j].id = executions[i].eventId /\ events[j].agentId = a}

\* C32: once an agent is DISABLED, no later run of DISABLE_AGENT or of any
\* other step, from the same or an overlapping request, changes its status;
\* a key that is revoked keeps its revokedAt and never becomes active again
\* whatever runs of REVOKE_ACTIVE_KEYS follow: a second run leaves the state
\* the first one left.
C32_Step ==
    /\ \A a \in AgentIds : agents[a] = "DISABLED" => agents'[a] = "DISABLED"
    /\ \A k \in KeyIds : apiKeys[k].revokedAt # NoDate => apiKeys'[k] = apiKeys[k]
    /\ \A a \in AgentIds :
          (RunsOf(a, "REVOKE_ACTIVE_KEYS") # {} /\ agents[a] = "DISABLED")
              => (agents'[a] = agents[a]
                  /\ \A k \in KeyIds : apiKeys[k].agentId = a => apiKeys'[k] = apiKeys[k])

C32_ResponsesIdempotent == [][C32_Step]_vars

\* Witness C32: both responses ran for two events of agent a1, the runs of
\* the two requests interleaved, the second revocation at a later instant
\* than the first; key k1 keeps the date of the first.
C32_Witness ==
    /\ Cardinality(RunsOf("a1", "DISABLE_AGENT")) >= 2
    /\ Cardinality(RunsOf("a1", "REVOKE_ACTIVE_KEYS")) >= 2
    /\ \E i, j \in RunsOf("a1", "REVOKE_ACTIVE_KEYS"), d \in RunsOf("a1", "DISABLE_AGENT") :
          /\ i < d /\ d < j
          /\ executions[d].eventId = executions[j].eventId
          /\ executions[i].eventId # executions[j].eventId
    /\ apiKeys["k1"].revokedAt = 0
    /\ now > 0
    /\ agents["a1"] = "DISABLED"

\* C40, at the start of a request: when a DISABLE_AGENT playbook has
\* executed for the agent, the request reads the agent DISABLED and its
\* decision is BLOCK, with the forced reason if there is one and with
\* agent_disabled otherwise.
C40_StartStep ==
    \A p \in Requests :
        ( /\ pc[p] = "idle"
          /\ pc'[p] # "idle"
          /\ RunsOf(req'[p].agent.id, "DISABLE_AGENT") # {} )
        => /\ req'[p].agent.status = "DISABLED"
           /\ loc'[p].decision = "BLOCK"
           /\ loc'[p].reason = IF req'[p].forceBlockReason # NULL
                               THEN req'[p].forceBlockReason ELSE "agent_disabled"

\* C40, to the end of the request: a request that read the agent DISABLED
\* keeps decision BLOCK, does not fail, and once past the append its audit
\* event is stored with decision BLOCK and the same reason.
C40_Ends ==
    \A p \in Requests :
        (pc[p] # "idle" /\ req[p].agent.status = "DISABLED")
        => /\ loc[p].decision = "BLOCK"
           /\ loc[p].reason = IF req[p].forceBlockReason # NULL
                              THEN req[p].forceBlockReason ELSE "agent_disabled"
           /\ pc[p] # "failed"
           /\ PastAppend(p) =>
                 /\ Cardinality(EventOf(p)) = 1
                 /\ \A e \in EventOf(p) :
                       /\ e.agentId = req[p].agent.id
                       /\ e.decision = "BLOCK"
                       /\ e.reason = loc[p].reason

\* C40: once a DISABLE_AGENT playbook has executed for an agent (nobody
\* re-enables it), every request of that agent that starts afterwards is
\* decided BLOCK, with agent_disabled when no forced reason applies, is
\* stored as an audit event, and is never ALLOW.
C40_DisabledStaysBlocked == [][C40_StartStep]_vars /\ []C40_Ends

\* Witness C40: the second call started after a DISABLE_AGENT run for agent
\* a1 with a key that is not revoked, and has returned BLOCK agent_disabled
\* with its event stored.
C40_Witness ==
    /\ pc[2] = "done"
    /\ req[2].agent.id = "a1"
    /\ req[2].action = "delete"
    /\ loc[2].reason = "agent_disabled"
    /\ pc[1] = "done"
    /\ \E i \in RunsOf("a1", "DISABLE_AGENT") : executions[i].eventId = loc[1].eventId
    /\ \E e \in EventOf(2) : e.decision = "BLOCK" /\ e.reason = "agent_disabled"

----------------------------------------------------------------------------
(* Workspaces are independent                                              *)

\* C33, frame: a step that stores an event of one workspace leaves the
\* ChainState row and the stored events of every other workspace as they
\* were.  C33, no contention: a direct append that ends without storing its
\* event has met a tail row of its own workspace created since it read the
\* tail; events of other workspaces never make it fail.
C33_Step ==
    /\ \A w \in Workspaces :
          (Len(events') = Len(events) + 1 /\ events'[Len(events')].workspaceId # w)
              => /\ chainState'[w] = chainState[w]
                 /\ SelectSeq(events', LAMBDA e : e.workspaceId = w) = ChainOf(w)
    /\ \A a \in Appenders :
          (apc[a] = "tx" /\ apc'[a] = "idle" /\ events' = events)
              => /\ ChainOf(areq[a].event.workspaceId) # << >>
                 /\ \A e \in {ChainOf(areq[a].event.workspaceId)[1]} :
                       e.prevHash = areq[a].prevHash

\* C33, no waiting: an append that has read its tail can always store its
\* event, whatever appends to other workspaces are in progress.
C33_NeverWaits ==
    \A a \in Appenders : apc[a] = "tx" => CanCommit(a)

----------------------------------------------------------------------------
(* Replay of slices of an untampered ledger                                *)

\* Non-overlapping reads of agents a1 and a2 in workspace w1 and of agent
\* a3 in w2, while an analyst replays a workspace: whole, restricted to one
\* agent, or from the second observed instant on.
ReplayInputs ==
    [ agent : {Agent1, Agent2, Agent3}, tool : ReqTools, action : {"read"},
      forceBlockReason : {NULL}, approvalRequestId : {NoId}, isOffHours : {FALSE} ]

NextReplay ==
    \/ Tick
    \/ \E p \in Requests, input \in ReplayInputs : RequestStartSeq(p, input)
    \/ \E p \in Requests : RequestAppendRead(p)
    \/ \E p \in Requests : RequestAppendCommit(p)
    \/ \E p \in Requests : BaselineUpsert(p)
    \/ \E w \in Workspaces, agentId \in {NULL, "a1", "a2"}, from \in {NoDate, TickStep} :
          ForensicsReplay(w, agentId, from, NoDate)

SpecReplay == Init /\ [][NextReplay]_vars

\* C34: for a ledger nobody tampered with, the replay of any slice (all
\* events of a workspace, those of one agent, those from a given instant
\* on) reports chainStatus HEALTHY, zero integrity failures and every event
\* OK.
C34_SliceVerifies ==
    (tamperedId = NoId /\ replayOut.chainStatus # "NONE")
        => /\ replayOut.chainStatus = "HEALTHY"
           /\ replayOut.integrityFailures = 0
           /\ \A i \in 1..Len(replayOut.timeline) :
                 replayOut.timeline[i].chainIntegrity = "OK"

----------------------------------------------------------------------------
(* Policy workflow: apps/api/src/routes/policies.ts                        *)

WorkflowKinds == {"edit", "submit", "approve", "reject"}

\* POST /policies: the policy as created, DRAFT at version 1.
CreatedPolicies ==
    [ id \in PolicyIds |->
        [InitialPolicies[id] EXCEPT !.status = "DRAFT", !.submitted = FALSE,
                                    !.rules = normalizePolicyRules(@, InitialPolicies[id].mode)] ]

InitWorkflow ==
    /\ LedgerEmpty
    /\ PolicyIdle
    /\ ForensicsIdle
    /\ FlowIdle
    /\ DirectoryActive
    /\ RequestsIdle
    /\ policies = CreatedPolicies
    /\ signatures = << >>
    /\ wf = [h \in Reviewers |-> NoWork]

\* PATCH /policies/:id, POST /policies/:id/submit-approval, /approve and
\* /reject up to their policy.findUnique.
WorkflowRead(h, id, kind) ==
    /\ wf[h].stage = "idle"
    /\ kind = "edit" => policies[id].version < MaxVersion
    /\ kind = "approve" => Len(signatures) < MaxSignatures
    /\ wf' = [wf EXCEPT ![h] = [ stage |-> "read", kind |-> kind, id |-> id,
                                 status |-> policies[id].status,
                                 version |-> policies[id].version ]]
    /\ UNCHANGED <<pureVars, dirVars, accessVars, signatures, now, ledgerVars, forensicVars, approvals,
                   baselines, policies, pc, req, loc, rpc, rreq, flowVars>>

\* The policies row after the rest of the handler, given the row as stored
\* now and the row the handler read.  The status check is made on the row
\* read; policy.update has no condition but the id.  An edit writes
\* existing.version + 1 and creates the policy_versions row of that
\* version in one transaction: when the row exists already (unique
\* policyId_version) the transaction rolls back.
WorkflowRow(row, read) ==
    CASE read.kind = "edit" ->
           IF row.version > read.version THEN row
           ELSE [row EXCEPT !.rules = normalizePolicyRules(@, row.mode),
                            !.version = read.version + 1,
                            !.status = "DRAFT",
                            !.submitted = FALSE]
      [] read.kind = "submit" ->
           IF read.status \notin {"DRAFT", "REJECTED"} THEN row
           ELSE [row EXCEPT !.status = "PENDING_APPROVAL", !.submitted = TRUE]
      [] read.kind = "approve" ->
           IF read.status # "PENDING_APPROVAL" THEN row
           ELSE [row EXCEPT !.status = "APPROVED"]
      [] read.kind = "reject" ->
           IF read.status # "PENDING_APPROVAL" THEN row
           ELSE [row EXCEPT !.status = "REJECTED"]

\* The rest of the handler: 400 unless the status read allows the request,
\* else the update; approve also creates the signature of the version the
\* update returned.
WorkflowWrite(h) ==
    /\ wf[h].stage = "read"
    /\ policies' = [policies EXCEPT ![wf[h].id] = WorkflowRow(@, wf[h])]
    /\ signatures' =
          IF wf[h].kind = "approve" /\ wf[h].status = "PENDING_APPROVAL"
          THEN Append(signatures, [policyId |-> wf[h].id,
                                   version |-> policies[wf[h].id].version])
          ELSE signatures
    /\ wf' = [wf EXCEPT ![h] = NoWork]
    /\ UNCHANGED <<pureVars, dirVars, accessVars, now, ledgerVars, forensicVars, approvals,
                   baselines, pc, req, loc, rpc, rreq, flowVars>>

NextWorkflow ==
    \/ \E h \in Reviewers, id \in PolicyIds, kind \in WorkflowKinds : WorkflowRead(h, id, kind)
    \/ \E h \in Reviewers : WorkflowWrite(h)

SpecWorkflow == InitWorkflow /\ [][NextWorkflow]_vars

\* The signatures of policy id at the given version, as positions.
SignaturesOf(id, version) ==
    {i \in 1..Len(signatures) :
        signatures[i].policyId = id /\ signatures[i].version = version}

\* C35, the transitions: the status of a policy changes only from DRAFT or
\* REJECTED to PENDING_APPROVAL (submit), from PENDING_APPROVAL to APPROVED
\* or REJECTED (approve, reject), or to DRAFT together with a version one
\* higher (edit); the version changes in no other way.
C35_Step ==
    \A id \in PolicyIds :
        LET old == policies[id]
            new == policies'[id]
        IN  \/ new.status = old.status /\ new.version = old.version
            \/ /\ new.version = old.version + 1
               /\ new.status = "DRAFT"
            \/ /\ new.version = old.version
               /\ old.status \in {"DRAFT", "REJECTED"}
               /\ new.status = "PENDING_APPROVAL"
            \/ /\ new.version = old.version
               /\ old.status = "PENDING_APPROVAL"
               /\ new.status \in {"APPROVED", "REJECTED"}

\* C35, the consequence: an APPROVED policy was submitted since its last
\* edit and has exactly one approval signature for its current version; no
\* version has more than one.
C35_ApprovedSigned ==
    \A id \in PolicyIds :
        /\ policies[id].status = "APPROVED" =>
              /\ policies[id].submitted
              /\ Cardinality(SignaturesOf(id, policies[id].version)) = 1
        /\ \A v \in 1..MaxVersion : Cardinality(SignaturesOf(id, v)) <= 1

\* C35: the policy workflow is the state machine DRAFT / PENDING_APPROVAL /
\* APPROVED / REJECTED, also when edit, submit, approve and reject requests
\* interleave.
C35_WorkflowStateMachine == [][C35_Step]_vars /\ []C35_ApprovedSigned

\* ---------------------------------------------------------------------
\* Workspace permissions
\* ---------------------------------------------------------------------

\* A permission string 'scope:verb', held as the pair of its two parts.
Perm(scope, verb) == <<scope, verb>>

ALL_WORKSPACE_PERMISSIONS ==
    { Perm("workspace", "create"), Perm("workspace", "manage_members"),
      Perm("rbac", "manage"), Perm("identity", "manage"),
      Perm("agents", "read"), Perm("agents", "write"), Perm("agents", "rotate_keys"),
      Perm("agents", "kill_switch"),
      Perm("policies", "read"), Perm("policies", "write"), Perm("policies", "approve"),
      Perm("policy_sync", "manage"), Perm("simulate", "run"), Perm("runtime", "manage"),
      Perm("audit", "read"), Perm("forensics", "read"),
      Perm("approvals", "read"), Perm("approvals", "manage"),
      Perm("playbooks", "read"), Perm("playbooks", "manage"),
      Perm("integrations", "manage"),
      Perm("compliance", "read"), Perm("compliance", "generate") }

OWNER_PERMISSIONS ==
    { Perm("workspace", "create"), Perm("workspace", "manage_members"),
      Perm("rbac", "manage"), Perm("identity", "manage"),
      Perm("agents", "read"), Perm("agents", "write"), Perm("agents", "rotate_keys"),
      Perm("agents", "kill_switch"),
      Perm("policies", "read"), Perm("policies", "write"), Perm("policies", "approve"),
      Perm("policy_sync", "manage"), Perm("simulate", "run"), Perm("runtime", "manage"),
      Perm("audit", "read"), Perm("forensics", "read"),
      Perm("approvals", "read"), Perm("approvals", "manage"),
      Perm("playbooks", "read"), Perm("playbooks", "manage"),
      Perm("integrations", "manage"),
      Perm("compliance", "read"), Perm("compliance", "generate") }

MEMBER_PERMISSIONS ==
    { Perm("agents", "read"), Perm("policies", "read"), Perm("simulate", "run"),
      Perm("audit", "read"), Perm("forensics", "read"), Perm("approvals", "read"),
      Perm("playbooks", "read"), Perm("compliance", "read") }

Roles == {"OWNER", "MEMBER"}

ROLE_TO_PERMISSIONS == [role \in Roles |->
    IF role = "OWNER" THEN OWNER_PERMISSIONS ELSE MEMBER_PERMISSIONS]

\* Mutant: the role's defaults are looked at first; an override only adds.
hasWorkspacePermission_roleFirst(role, permission, overrideEffect) ==
    IF permission \in ROLE_TO_PERMISSIONS[role] THEN TRUE
    ELSE overrideEffect = "ALLOW"

\* An override row decides; without one the role's default set does.
hasWorkspacePermission(role, permission, overrideEffect) ==
    IF overrideEffect = "ALLOW" THEN TRUE
    ELSE IF overrideEffect = "DENY" THEN FALSE
    ELSE permission \in ROLE_TO_PERMISSIONS[role]

\* The override row found for the member and permission, if any.
OverrideEffects == {NULL, "ALLOW", "DENY"}

PermInputs ==
    [ role : Roles, permission : ALL_WORKSPACE_PERMISSIONS, overrideEffect : OverrideEffects ]

InitAccess ==
    /\ permIn \in PermInputs
    /\ permOut = {}
    /\ agents = [a \in AgentIds |-> "ACTIVE"]
    /\ apiKeys = InitialKeys
    /\ PoliciesApproved
    /\ PolicyIdle
    /\ LedgerEmpty
    /\ ForensicsIdle
    /\ FlowIdle
    /\ RequestsIdle

\* One call hasWorkspacePermission(role, permission, overrideEffect).
CheckPermission ==
    /\ permOut = {}
    /\ permOut' = {hasWorkspacePermission(permIn.role, permIn.permission,
                                          permIn.overrideEffect)}
    /\ UNCHANGED <<permIn, pureVars, dirVars, workflowVars, now, ledgerVars, forensicVars,
                   approvals, baselines, policies, pc, req, loc, rpc, rreq, flowVars>>

NextAccess == CheckPermission

SpecAccess == InitAccess /\ [][NextAccess]_vars

\* C36: an override decides the result whatever the role and permission
\* (ALLOW gives true, DENY gives false); without an override the result is
\* membership in the role's default set, OWNER holding every permission and
\* MEMBER exactly the permissions whose verb is read, and simulate:run.
C36_OverridePrecedence ==
    permOut # {} =>
        /\ permIn.overrideEffect = "ALLOW" => permOut = {TRUE}
        /\ permIn.overrideEffect = "DENY" => permOut = {FALSE}
        /\ permIn.overrideEffect = NULL =>
              permOut = { \/ permIn.role = "OWNER"
                          \/ /\ permIn.role = "MEMBER"
                             /\ \/ permIn.permission[2] = "read"
                                \/ permIn.permission = Perm("simulate", "run") }

\* An override reversed the role's default: a member was granted key
\* rotation.
C36_Witness ==
    /\ permIn.role = "MEMBER"
    /\ permIn.permission = Perm("agents", "rotate_keys")
    /\ permIn.overrideEffect = "ALLOW"
    /\ permOut = {TRUE}

\* ---------------------------------------------------------------------
\* What an approval authorizes
\* ---------------------------------------------------------------------

\* Agent a1 asks for a delete or for an export (which policy p1 puts behind
\* approval), with no approval id or with the id of the approval requested
\* for its first delete.
ScopeInputs ==
    [ agent : {Agent1}, tool : ReqTools, action : {"delete", "export"},
      forceBlockReason : {NULL}, approvalRequestId : {NoId, 1}, isOffHours : {FALSE} ]

NextScope ==
    \/ Tick
    \/ \E p \in Requests, input \in ScopeInputs : RequestStartSeq(p, input)
    \/ \E p \in Requests : RequestSteps(p)
    \/ \E r \in Resolvers, id \in ApprovalIds, kind \in ResolveKinds :
         ResolveReadSeq(r, id, kind)
    \/ \E r \in Resolvers : ResolveWrite(r)

SpecScope == Init /\ [][NextScope]_vars

\* C37: an approval is consumed only by a request of the workspace, agent,
\* tool and action it was created for.
C37_Step ==
    \A i \in 1..Len(approvals) :
        (approvals[i].consumedAt = NoDate /\ approvals'[i].consumedAt # NoDate) =>
            \E p \in Requests :
                /\ pc[p] = "gate_update"
                /\ pc'[p] # "gate_update"
                /\ loc[p].approvedRequest = i
                /\ req[p].agent.workspaceId = approvals[i].workspaceId
                /\ req[p].agent.id = approvals[i].agentId
                /\ req[p].tool = approvals[i].tool
                /\ req[p].action = approvals[i].action

C37_ApprovalScoped == [][C37_Step]_vars

\* ---------------------------------------------------------------------
\* Consumed approvals
\* ---------------------------------------------------------------------

\* C38: whatever the interleaving of approve, reject and consumption, an
\* approval request that is consumed has status APPROVED (a PENDING or
\* REJECTED one is never consumed, a consumed one never becomes REJECTED).
C38_ConsumedIsApproved ==
    \A i \in 1..Len(approvals) :
        approvals[i].consumedAt # NoDate => approvals[i].status = "APPROVED"

\* ---------------------------------------------------------------------
\* Requests whose ledger append fails
\* ---------------------------------------------------------------------

\* Agent a3 of workspace w2, whose ledger is still empty, reads or asks for
\* a delete, without an approval id.
AbortInputs ==
    [ agent : {Agent3}, tool : ReqTools, action : {"read", "delete"},
      forceBlockReason : {NULL}, approvalRequestId : {NoId}, isOffHours : {FALSE} ]

NextAbort ==
    \/ Tick
    \/ \E p \in Requests, input \in AbortInputs : RequestStart(p, input)
    \/ \E p \in Requests : GateCreate(p)
    \/ \E p \in Requests : RequestAppendRead(p)
    \/ \E p \in Requests : RequestAppendCommit(p)
    \/ \E p \in Requests : RequestAppendConflict(p)
    \/ \E p \in Requests : BaselineUpsert(p)

SpecAbort == Init /\ [][NextAbort]_vars

\* C39: when the ledger append of a request fails, the approval the request
\* consumed is unconsumed again and the approval request it opened does not
\* remain.
C39_Step ==
    \A p \in Requests :
        (pc[p] = "append_write" /\ pc'[p] = "failed") =>
            /\ loc[p].approvedRequest # NoId =>
                  approvals'[loc[p].approvedRequest].consumedAt = NoDate
            /\ loc[p].approvalId # NoId =>
                  loc[p].approvalId \notin 1..Len(approvals')

C39_FailedAppendUndoesGate == [][C39_Step]_vars

====
